---------------------------- MODULE Spec2Model ----------------------------
(***************************************************************************)
(* slack-archive: the conversation archival pipeline.                      *)
(*                                                                         *)
(* newConversationArchive (src/app/conversations.go) computes the archive  *)
(* window in the account's timezone, pages through the conversation's      *)
(* history and hands the messages to groupMessages (src/unnamed/part_005), *)
(* which resolves every message's author through UserLookup                *)
(* (src/app/emoji.go) and clusters the messages into MessageGroups.        *)
(*                                                                         *)
(* Instants are Unix seconds.  A Slack timestamp string ("1700000000.5")   *)
(* is a fixed-point number: [sec, frac] with frac counted in units of      *)
(* 1/SubPerSec second.                                                     *)
(***************************************************************************)
EXTENDS Integers, Sequences, FiniteSets, TLC

VARIABLES
    now,              \* time.Now(): the instant newConversationArchive runs at
    zone,             \* account.TimezoneLocation
    devMode,          \* the devMode argument
    upstream,         \* the messages the conversation holds upstream
    pc,               \* position in newConversationArchive / groupMessages
    archiveStartTime, \* conversations.go:345
    archiveEndTime,   \* conversations.go:346
    params,           \* slack.GetConversationHistoryParameters
    history,          \* the response of the last GetConversationHistory call
    messages,         \* the accumulator of conversations.go:343
    pages,            \* number of GetConversationHistory calls made
    fault,            \* how the upstream departed from its contract so far
    err,              \* the error newConversationArchive returns ("" is nil)
    usersById,        \* UserLookup.usersById
    haveLookup,       \* whether newUserLookup has returned a UserLookup
    groups,           \* groupMessages' groups
    i,                \* groupMessages' loop index (1-based)
    authorLookups,    \* number of GetUserForMessage calls
    upCalls,          \* number of GetUserInfo / GetBotInfo calls
    resolved,         \* input position -> ID of the author resolved for it
    archive,          \* the *ConversationArchive returned (NoArchive is nil)
    run,              \* which run of groupMessages over the same list this is
    firstGroups,      \* the groups the first run returned
    origin,           \* the listed conversation an archive link is made for
    mpimMembers,      \* upstream: the member ids of the multi-party DM
    isDev,            \* appengine.IsDevAppServer()
    reqType,          \* the {type} of the request
    reqRef,           \* the {ref} of the request
    linked,           \* whether type and ref came from ToRef
    hpc,              \* where conversationArchiveHandler stands
    conversation,     \* the Conversation getConversationFromRef builds
    refLookup,        \* usersById of the UserLookup of loadUsers
    memberIds,        \* the ids GetUsersInConversation returned
    mi,               \* index of the member the loop is at
    loaded,           \* the local `users' of loadUsersWithLookup
    apiCalls,         \* upstream calls the request has made
    upFailed,         \* whether an upstream call of the request failed
    appError,         \* the *AppError the handler returned
    mails,            \* operator alert mails sent
    status,           \* HTTP status written
    accounts,         \* datastore: the Account records
    cron,             \* what archiveCronHandler did
    queue,            \* the sendArchive tasks enqueued and not yet run
    spc,              \* where the scheduled send stands
    cur,              \* index of the account of the running task
    convs,            \* how many conversations getConversations listed for it
    ck,               \* index of the conversation the loop is at
    sentCount,        \* sentCount of sendArchive
    sendErr,          \* the error sendArchive returns
    sendFailed,       \* whether a sendConversationArchive of the task failed
    attempted,        \* <<account, conversation>> pairs sent or tried
    lastSend,         \* the last call of sendConversationArchive
    taskResults,      \* what each finished task did and returned
    digests,          \* messages handed to mail.Send by sendConversationArchive
    opMails,          \* operator alert mails of the scheduled send
    defaultTransport, \* http.DefaultTransport: the invocation whose context it holds
    cpc,              \* where each concurrent invocation stands
    made,             \* upstream calls each invocation has issued
    callLog,          \* every upstream call: by whom, through whose context
    ctxDone,          \* the invocations whose context has ended
    fileUrlRefEncryptionKey, \* files.go:22, as loaded at start-up
    fileRef,          \* the FileUrlRef a thumbnail URL is made for
    fpc,              \* where the token of the thumbnail URL stands
    encoded,          \* what FileUrlRef.Encode returned
    presented,        \* the {ref} the thumbnail endpoint is called with
    intact,           \* whether that is the token exactly as Encode made it
    decoded,          \* what DecodeFileUrlRef did with it
    entities,         \* datastore: the Account entities, by key
    session,          \* the user id entry of the request's session
    url,              \* r.URL of the request
    apc,              \* where the lookup or the request stands
    returned,         \* what getAccount or getAllAccounts returned
    fnState,          \* the *AppSignedInState the wrapped function got
    slackClients,     \* Slack clients made by account.NewSlackClient
    lcache,           \* usersById of one UserLookup
    lpc,              \* whether that UserLookup has been made
    lmsg,             \* the author fields of the messages resolved with it
    lres,             \* what each GetUserForMessage on it returned and did
    gid,              \* the id GetUser is asked for
    gres,             \* what each GetUser(gid) on it returned and did
    rtext,            \* the control tokens of the messages' texts
    rreactions,       \* the reactions of the messages, each its users
    rpc,              \* where the archive being built and rendered stands
    rk,               \* index of the next token or reaction
    rhtml,            \* what textToHtml made of each token
    rsummaries,       \* what Summary returned for each reaction
    getUsersCalls     \* calls of slackClient.GetUsers

\* The state of an archive build.
archiveVars ==
    <<now, zone, devMode, upstream, pc, archiveStartTime, archiveEndTime,
      params, history, messages, pages, fault, err, usersById, haveLookup,
      groups, i, authorLookups, upCalls, resolved, archive, run, firstGroups>>

\* The state of a request for the archive page of a conversation.
refVars ==
    <<origin, mpimMembers, isDev, reqType, reqRef, linked, hpc, conversation,
      refLookup, memberIds, mi, loaded, apiCalls, upFailed, appError, mails,
      status>>

\* The state of the scheduled send.
sendVars ==
    <<accounts, cron, queue, spc, cur, convs, ck, sentCount, sendErr, sendFailed,
      attempted, lastSend, taskResults, digests, opMails>>

\* The process-wide HTTP transport and the invocations that share it.
transportVars == <<defaultTransport, cpc, made, callLog, ctxDone>>

\* The state of a thumbnail URL token.
fileVars ==
    <<fileUrlRefEncryptionKey, fileRef, fpc, encoded, presented, intact, decoded>>

\* The state the operations of the archive, the archive page, the scheduled
\* send and the transport leave alone.
\* The state of an account lookup and of a request by a signed-in user.
signedInVars ==
    <<entities, session, url, apc, returned, fnState, slackClients>>

\* The state of one UserLookup over several calls.
lookupVars == <<lcache, lpc, lmsg, lres, gid, gres>>

\* The state of an archive being built and rendered.
renderVars ==
    <<rtext, rreactions, rpc, rk, rhtml, rsummaries, getUsersCalls>>

restVars == <<fileVars, signedInVars, lookupVars, renderVars>>

vars == <<archiveVars, refVars, sendVars, transportVars, restVars>>

---------------------------------------------------------------------------
(* Bounds of the model.                                                    *)

\* Page size of a history request.  The code asks for 1000
\* (conversations.go:359); the model pages the same way with small pages.
Limit == 2

\* Most messages the conversation holds in the archive window.
MaxMsgs == 5

\* Resolution of the fractional part of a timestamp string.
SubPerSec == 2

\* Longest message list handed to groupMessages on its own.
MaxGroupMsgs == 3

\* Longest message list in the runs that vary the author fields.
MaxAuthorMsgs == 2

\* Most members of a multi-party DM.
MaxMembers == 3

\* Most accounts in the datastore.
MaxAccounts == 2

\* Most conversations of an account.
MaxConvs == 2

\* Most upstream calls of one invocation.
MaxCalls == 2

\* Bytes of a cipher block.  AES has 16 (aes.BlockSize); the model chains
\* blocks the same way with short ones.
BlockSize == 2

\* Longest file id or user id of a FileUrlRef, in bytes.
MaxIdLen == 2

\* Most calls of one kind on one UserLookup.
MaxRepeats == 2

\* Most control tokens in the texts of an archive.
MaxTokens == 2

\* Most reactions in an archive.
MaxReactions == 2

---------------------------------------------------------------------------
(* Time: the Go time package as newConversationArchive uses it.            *)

\* The invocations that run concurrently.
Invocations == {"A", "B"}

Hour == 60 * 60

SecondsPerDay == 24 * Hour

\* time.Minute*10 in seconds
GroupGap == 10 * 60

\* A *time.Location with at most one UTC-offset transition: `before' is the
\* offset (seconds east of UTC) of instants earlier than `at', `after' the
\* offset from `at' on.
Offset(loc, u) == IF u < loc.at THEN loc.before ELSE loc.after

\* The wall-clock reading of instant u in loc, in seconds since the civil
\* epoch; its calendar day and its clock within the day.
Local(loc, u) == u + Offset(loc, u)

LocalDay(loc, u) == Local(loc, u) \div SecondsPerDay

LocalClock(loc, u) == Local(loc, u) % SecondsPerDay

\* time.Date(y, m, d, h, m, s, 0, loc) with the calendar day as a day number
\* and the clock in seconds.  The instants it may return: the instants that
\* read (day, clock) in loc; when a transition skips that reading, "a time
\* that is correct in one of the two zones involved in the transition"
\* without a guarantee which; when a transition repeats it, either instant.
Date(loc, day, clock) ==
    LET civil == day * SecondsPerDay + clock
        cand  == {civil - loc.before, civil - loc.after}
        valid == {u \in cand : Local(loc, u) = civil}
    IN  IF valid # {} THEN valid ELSE cand

\* t.AddDate(0, 0, days): Date(year, month, day+days, hour, min, sec, loc)
\* of t's own wall-clock reading.
AddDate(loc, t, days) == Date(loc, LocalDay(loc, t) + days, LocalClock(loc, t))

\* The window of conversations.go:347-353: the (start, end) pairs the code
\* may compute.  Not in devMode: midnight of now's local date, one calendar
\* day back; the end is the start one calendar day on, less one second.
ArchiveWindow(loc, t, dev) ==
    IF ~dev
    THEN UNION {UNION {{[start |-> s, end |-> e - 1] : e \in AddDate(loc, s, 1)} :
                        s \in AddDate(loc, m, -1)} :
                 m \in Date(loc, LocalDay(loc, t), 0)}
    ELSE {[start |-> s, end |-> t] : s \in AddDate(loc, t, -1)}

---------------------------------------------------------------------------
(* Timestamp strings.                                                      *)

\* fmt.Sprintf("%d", t.Unix())
FormatUnix(t) == [sec |-> t, frac |-> 0]

\* Numeric order of two timestamp strings, as the upstream compares them.
TsLess(a, b) == a.sec < b.sec \/ (a.sec = b.sec /\ a.frac < b.frac)

\* Message.TimestampTime: strconv.ParseFloat, then time.Unix(int64(f), 0):
\* the fraction is dropped.
TimestampTime(m) == m.Timestamp.sec

---------------------------------------------------------------------------
(* The upstream history API.                                               *)

\* The messages of a set, newest first.
RECURSIVE NewestFirst(_)
NewestFirst(S) ==
    IF S = {} THEN <<>>
    ELSE LET m == CHOOSE x \in S : \A y \in S : ~TsLess(x.Timestamp, y.Timestamp)
         IN  <<m>> \o NewestFirst(S \ {m})

\* The messages of a set, oldest first.
RECURSIVE OldestFirst(_)
OldestFirst(S) ==
    IF S = {} THEN <<>>
    ELSE LET m == CHOOSE x \in S : \A y \in S : ~TsLess(y.Timestamp, x.Timestamp)
         IN  <<m>> \o OldestFirst(S \ {m})

\* What a request selects: with Inclusive false the messages strictly
\* between Oldest and Latest, with Inclusive true the bounds as well.
Selected(p, channel) ==
    {m \in channel :
        /\ TsLess(p.Oldest, m.Timestamp) \/ (p.Inclusive /\ m.Timestamp = p.Oldest)
        /\ TsLess(m.Timestamp, p.Latest) \/ (p.Inclusive /\ m.Timestamp = p.Latest)}

NoHistory == [failed |-> FALSE, Messages |-> <<>>, HasMore |-> FALSE]

\* slackClient.GetConversationHistory(&params): the responses the upstream
\* may give.  Within its contract: the newest k selected messages, newest
\* first, 1 <= k <= Limit, HasMore iff older selected messages remain (and
\* the empty page when nothing is selected).  Outside it: a failed call, or
\* a page of zero messages whatever remains, with HasMore either way.
GetConversationHistory(p, channel) ==
    LET avail == NewestFirst(Selected(p, channel))
        most  == IF Len(avail) < p.Limit THEN Len(avail) ELSE p.Limit
    IN  {[failed |-> FALSE, Messages |-> SubSeq(avail, 1, k), HasMore |-> Len(avail) > k] :
            k \in (IF avail = <<>> THEN {0} ELSE 1..most)}
        \cup {[failed |-> TRUE, Messages |-> <<>>, HasMore |-> FALSE]}
        \cup {[failed |-> FALSE, Messages |-> <<>>, HasMore |-> h] : h \in BOOLEAN}

\* Whether a response keeps the contract of the history API.
WithinContract(p, channel, resp) ==
    /\ ~resp.failed
    /\ resp.Messages = <<>> => (Selected(p, channel) = {} /\ ~resp.HasMore)

---------------------------------------------------------------------------
(* The upstream user directory, the same for every call of one behaviour.  *)

NilUser == [ID |-> "", Name |-> "", Image |-> ""]

\* slackClient.GetUsers(): the bulk listing.
Users ==
    {[ID |-> "U0", Name |-> "me",  Image |-> "profile"],
     [ID |-> "U1", Name |-> "bob", Image |-> "profile"],
     [ID |-> "U2", Name |-> "amy", Image |-> "profile"]}

\* slackClient.GetUserInfo(id) succeeds for these ids: the listed users and
\* one user the bulk listing leaves out.
UserInfo ==
    [id \in {"U0", "U1", "U2", "U3"} |->
        [ID |-> id,
         Name |-> (IF id = "U0" THEN "me" ELSE IF id = "U1" THEN "bob"
                   ELSE IF id = "U2" THEN "amy" ELSE "cat"),
         Image |-> "profile"]]

\* slackClient.GetBotInfo(id) succeeds for these ids.
BotInfo == [id \in {"B1"} |-> [ID |-> id, Name |-> "Bob"]]

\* strings.HasPrefix(userId, "B") over the ids of the model.
HasPrefixB(userId) == userId \in {"B1", "B9"}

\* strings.EqualFold over the names of the model: equal once lower-cased.
ToLower(name) ==
    IF name \in {"bob", "Bob", "BOB"} THEN "bob"
    ELSE IF name \in {"amy", "Amy"} THEN "amy"
    ELSE name

EqualFold(a, b) == ToLower(a) = ToLower(b)

---------------------------------------------------------------------------
(* UserLookup (src/app/emoji.go).  An operator that may fill the cache     *)
(* returns the user, whether it failed, the cache afterwards and the       *)
(* number of upstream calls it made.                                       *)

\* usersById of newUserLookup: every listed user under its ID.
BulkCache == [id \in {u.ID : u \in Users} |-> CHOOSE u \in Users : u.ID = id]

Put(cache, id, user) == (id :> user) @@ cache

\* GetUser returning what it looked up without storing it.
GetUserNotStoring(cache, userId) ==
    IF userId \in DOMAIN cache
    THEN [user |-> cache[userId], failed |-> FALSE, cache |-> cache, calls |-> 0]
    ELSE IF HasPrefixB(userId) /\ userId \in DOMAIN BotInfo
    THEN [user |-> [ID |-> userId, Name |-> BotInfo[userId].Name, Image |-> "bot_icons"],
          failed |-> FALSE, cache |-> cache, calls |-> 1]
    ELSE [user   |-> IF userId \in DOMAIN UserInfo THEN UserInfo[userId] ELSE NilUser,
          failed |-> userId \notin DOMAIN UserInfo,
          cache  |-> cache,
          calls  |-> IF HasPrefixB(userId) THEN 2 ELSE 1]

GetUser(cache, userId) ==
    IF userId \in DOMAIN cache
    THEN [user |-> cache[userId], failed |-> FALSE, cache |-> cache, calls |-> 0]
    ELSE IF HasPrefixB(userId) /\ userId \in DOMAIN BotInfo
    THEN LET bot     == BotInfo[userId]
             botUser == [ID |-> bot.ID, Name |-> bot.Name, Image |-> "bot_icons"]
         IN  [user |-> botUser, failed |-> FALSE,
              cache |-> Put(cache, userId, botUser), calls |-> 1]
    ELSE LET botCalls == IF HasPrefixB(userId) THEN 1 ELSE 0
         IN  IF userId \in DOMAIN UserInfo
             THEN [user |-> UserInfo[userId], failed |-> FALSE,
                   cache |-> Put(cache, userId, UserInfo[userId]),
                   calls |-> botCalls + 1]
             ELSE [user |-> NilUser, failed |-> TRUE, cache |-> cache,
                   calls |-> botCalls + 1]

\* GetUserByName ranges over the map usersById, whose iteration order Go
\* leaves unspecified: `first' is the key the iteration meets first among
\* the keys whose user matches.
GetUserByName(cache, name, first) ==
    LET matches == {id \in DOMAIN cache : EqualFold(name, cache[id].Name)}
    IN  IF matches = {} THEN NilUser
        ELSE IF first \in matches THEN cache[first]
        ELSE cache[CHOOSE id \in matches : TRUE]

newSyntheticUser(name) ==
    [ID |-> "synthetic-" \o name, Name |-> name, Image |-> "synthetic_avatar"]

newSyntheticBotUser(name) ==
    [ID |-> "synthetic-" \o name, Name |-> name, Image |-> "synthetic_bot_icon"]

\* The fallback chain with a name match found and then dropped: only a
\* missing match returns (the synthetic user of the name).
GetUserForMessageDroppingMatch(cache, message, first) ==
    LET byUser == GetUser(cache, message.User)
        cache1 == IF message.User # "" THEN byUser.cache ELSE cache
        calls1 == IF message.User # "" THEN byUser.calls ELSE 0
        byBot  == GetUser(cache1, message.BotID)
        cache2 == IF message.BotID # "" THEN byBot.cache ELSE cache1
        calls2 == IF message.BotID # "" THEN calls1 + byBot.calls ELSE calls1
        byName == GetUserByName(cache2, message.Username, first)
    IN  IF message.User # "" /\ ~byUser.failed
        THEN [user |-> byUser.user, cache |-> cache1, calls |-> calls1]
        ELSE IF message.BotID # "" /\ ~byBot.failed
        THEN [user |-> byBot.user, cache |-> cache2, calls |-> calls2]
        ELSE IF message.Username # "" /\ byName = NilUser
        THEN [user |-> newSyntheticUser(message.Username),
              cache |-> cache2, calls |-> calls2]
        ELSE IF message.User # ""
        THEN [user |-> newSyntheticUser(message.User), cache |-> cache2, calls |-> calls2]
        ELSE IF message.BotID # ""
        THEN [user |-> newSyntheticBotUser(message.BotID), cache |-> cache2, calls |-> calls2]
        ELSE [user |-> NilUser, cache |-> cache2, calls |-> calls2]

\* The fallback chain without its last two steps: the error of the failed
\* lookup is all that is left when there is no username.
GetUserForMessageNoIdFallback(cache, message, first) ==
    LET byUser == GetUser(cache, message.User)
        cache1 == IF message.User # "" THEN byUser.cache ELSE cache
        calls1 == IF message.User # "" THEN byUser.calls ELSE 0
        byBot  == GetUser(cache1, message.BotID)
        cache2 == IF message.BotID # "" THEN byBot.cache ELSE cache1
        calls2 == IF message.BotID # "" THEN calls1 + byBot.calls ELSE calls1
        byName == GetUserByName(cache2, message.Username, first)
    IN  IF message.User # "" /\ ~byUser.failed
        THEN [user |-> byUser.user, cache |-> cache1, calls |-> calls1]
        ELSE IF message.BotID # "" /\ ~byBot.failed
        THEN [user |-> byBot.user, cache |-> cache2, calls |-> calls2]
        ELSE IF message.Username # ""
        THEN [user |-> (IF byName # NilUser THEN byName
                        ELSE newSyntheticUser(message.Username)),
              cache |-> cache2, calls |-> calls2]
        ELSE [user |-> NilUser, cache |-> cache2, calls |-> calls2]

GetUserForMessage(cache, message, first) ==
    LET byUser == GetUser(cache, message.User)
        cache1 == IF message.User # "" THEN byUser.cache ELSE cache
        calls1 == IF message.User # "" THEN byUser.calls ELSE 0
        byBot  == GetUser(cache1, message.BotID)
        cache2 == IF message.BotID # "" THEN byBot.cache ELSE cache1
        calls2 == IF message.BotID # "" THEN calls1 + byBot.calls ELSE calls1
        byName == GetUserByName(cache2, message.Username, first)
    IN  IF message.User # "" /\ ~byUser.failed
        THEN [user |-> byUser.user, cache |-> cache1, calls |-> calls1]
        ELSE IF message.BotID # "" /\ ~byBot.failed
        THEN [user |-> byBot.user, cache |-> cache2, calls |-> calls2]
        ELSE IF message.Username # ""
        THEN [user |-> (IF byName # NilUser THEN byName
                        ELSE newSyntheticUser(message.Username)),
              cache |-> cache2, calls |-> calls2]
        ELSE IF message.User # ""
        THEN [user |-> newSyntheticUser(message.User), cache |-> cache2, calls |-> calls2]
        ELSE IF message.BotID # ""
        THEN [user |-> newSyntheticBotUser(message.BotID), cache |-> cache2, calls |-> calls2]
        ELSE [user |-> NilUser, cache |-> cache2, calls |-> calls2]

---------------------------------------------------------------------------
(* groupMessages (src/unnamed/part_005).  A group holds the positions of   *)
(* its messages in the input list (the code holds pointers to them).       *)

\* A comparison that forgets the author.
shouldContainMessageAnyAuthor(mg, list, message, messageAuthor) ==
    LET lastMessage    == list[mg.Messages[Len(mg.Messages)]]
        timestampDelta == TimestampTime(message) - TimestampTime(lastMessage)
    IN  ~(timestampDelta > GroupGap)

\* A comparison that already splits at a gap of exactly 10 minutes.
shouldContainMessageUnderGap(mg, list, message, messageAuthor) ==
    IF messageAuthor.ID # mg.Author.ID THEN FALSE
    ELSE LET lastMessage    == list[mg.Messages[Len(mg.Messages)]]
             timestampDelta == TimestampTime(message) - TimestampTime(lastMessage)
         IN  ~(timestampDelta >= GroupGap)

\* MessageGroup.shouldContainMessage
shouldContainMessage(mg, list, message, messageAuthor) ==
    IF messageAuthor.ID # mg.Author.ID THEN FALSE
    ELSE LET lastMessage    == list[mg.Messages[Len(mg.Messages)]]
             timestampDelta == TimestampTime(message) - TimestampTime(lastMessage)
         IN  ~(timestampDelta > GroupGap)

\* A loop that skips no message.
SkipsNothing(message) == FALSE

\* The `if message.Hidden { continue }' of the loop.
SkipsHidden(message) == message.Hidden

\* A loop that looks for any earlier group of the same author before it
\* opens a new one.
AddToGroupsByAuthor(gs, list, pos, messageAuthor) ==
    LET same == {g \in 1..Len(gs) : gs[g].Author.ID = messageAuthor.ID}
    IN  IF same = {}
        THEN Append(gs, [Messages |-> <<pos>>, Author |-> messageAuthor])
        ELSE LET g == CHOOSE x \in same : \A y \in same : x <= y
             IN  [gs EXCEPT ![g].Messages = Append(@, pos)]

\* Lines 343-350 of the loop body: open a group when there is none or the
\* current (last) one should not contain the message, then append the
\* message to the current group.
AddToGroups(gs, list, pos, messageAuthor) ==
    LET current == Len(gs)
        opened  == IF current = 0
                      \/ ~shouldContainMessage(gs[current], list, list[pos], messageAuthor)
                   THEN Append(gs, [Messages |-> <<>>, Author |-> messageAuthor])
                   ELSE gs
    IN  [opened EXCEPT ![Len(opened)].Messages = Append(@, pos)]

\* One iteration of the loop of groupMessages over list[pos], from the state
\* st = [groups, cache, lookups, calls, author].
ProcessMessage(st, list, pos, first) ==
    IF SkipsHidden(list[pos])
    THEN [st EXCEPT !.author = ""]
    ELSE LET r == GetUserForMessage(st.cache, list[pos], first)
         IN  [groups  |-> IF r.user = NilUser THEN st.groups
                          ELSE AddToGroups(st.groups, list, pos, r.user),
              cache   |-> r.cache,
              lookups |-> st.lookups + 1,
              calls   |-> st.calls + r.calls,
              author  |-> r.user.ID]

---------------------------------------------------------------------------
(* newConversationArchive (src/app/conversations.go:342-386).              *)

NoArchive ==
    [MessageGroups |-> <<>>, MessageCount |-> -1, StartTime |-> 0, EndTime |-> 0]

NoParams ==
    [ChannelID |-> "", Latest |-> FormatUnix(0), Oldest |-> FormatUnix(0),
     Limit |-> 0, Inclusive |-> FALSE]

EmptyCache == [id \in {} |-> NilUser]

\* A page put in front of the accumulator as it came, newest first.
PrependPageInOrder(page, acc) == page \o acc

\* The inner loop of lines 367-369: each message of the page, in the order
\* of the page, is put in front of the accumulator.
RECURSIVE PrependPage(_, _)
PrependPage(page, acc) ==
    IF page = <<>> THEN acc
    ELSE PrependPage(Tail(page), <<Head(page)>> \o acc)

\* A failed request ending the loop like a last page would.
AfterPageBreakOnError(resp) ==
    IF resp.failed \/ ~resp.HasMore THEN "lookup"
    ELSE IF Len(resp.Messages) = 0 THEN "panic"
    ELSE "fetch"

\* Where the loop of lines 362-374 goes after a response: the error return;
\* the break; the index history.Messages[len-1] of an empty slice, which
\* panics; or the next request.
AfterPage(resp) ==
    IF resp.failed THEN "error"
    ELSE IF ~resp.HasMore THEN "lookup"
    ELSE IF Len(resp.Messages) = 0 THEN "panic"
    ELSE "fetch"

\* Lines 343-361: the window and the first request.
Begin ==
    /\ pc = "start"
    /\ \E w \in ArchiveWindow(zone, now, devMode) :
        /\ archiveStartTime' = w.start
        /\ archiveEndTime' = w.end
        /\ params' = [ChannelID |-> "C1",
                      Latest    |-> FormatUnix(w.end),
                      Oldest    |-> FormatUnix(w.start),
                      Limit     |-> Limit,
                      Inclusive |-> FALSE]
    /\ pc' = "fetch"
    /\ UNCHANGED <<now, zone, devMode, upstream, history, messages, pages, fault,
                   err, usersById, haveLookup, groups, i, authorLookups, upCalls,
                   resolved, archive, run, firstGroups>>
    /\ UNCHANGED <<refVars, sendVars, transportVars, restVars>>

\* A next request that starts below the newest message of the page.
NextParamsBelowNewest(p, resp) ==
    [p EXCEPT !.Latest = resp.Messages[1].Timestamp]

\* Line 373: the parameters of the next request.
NextParams(p, resp) ==
    [p EXCEPT !.Latest = resp.Messages[Len(resp.Messages)].Timestamp]

\* One turn of the loop of lines 362-374.
FetchPage ==
    /\ pc = "fetch"
    /\ \E resp \in GetConversationHistory(params, upstream) :
        /\ history' = resp
        /\ fault' = IF fault # "" \/ WithinContract(params, upstream, resp) THEN fault
                    ELSE IF resp.failed THEN "failed" ELSE "empty"
        /\ messages' = IF resp.failed THEN messages
                       ELSE PrependPage(resp.Messages, messages)
        /\ pc' = AfterPage(resp)
        /\ err' = IF resp.failed THEN "history" ELSE err
        /\ params' = IF AfterPage(resp) = "fetch" THEN NextParams(params, resp)
                     ELSE params
    /\ pages' = pages + 1
    /\ UNCHANGED <<now, zone, devMode, upstream, archiveStartTime, archiveEndTime,
                   usersById, haveLookup, groups, i, authorLookups, upCalls,
                   resolved, archive, run, firstGroups>>
    /\ UNCHANGED <<refVars, sendVars, transportVars, restVars>>

\* groupMessages, lines 326-331: newUserLookup lists the users in bulk; when
\* the listing fails groupMessages, and with it newConversationArchive,
\* returns the error.
NewUserLookup ==
    /\ pc = "lookup"
    /\ \E ok \in BOOLEAN :
        /\ haveLookup' = ok
        /\ usersById' = IF ok THEN BulkCache ELSE usersById
        /\ pc' = IF ok THEN "group" ELSE "error"
        /\ err' = IF ok THEN err ELSE "users"
    /\ groups' = <<>>
    /\ i' = 1
    /\ UNCHANGED <<now, zone, devMode, upstream, archiveStartTime, archiveEndTime,
                   params, history, messages, pages, fault, authorLookups, upCalls,
                   resolved, archive, run, firstGroups>>
    /\ UNCHANGED <<refVars, sendVars, transportVars, restVars>>

\* groupMessages, lines 332-351: one iteration of the loop.
GroupStep ==
    /\ pc = "group"
    /\ i <= Len(messages)
    /\ \E first \in DOMAIN usersById \cup {""} :
        LET st == ProcessMessage([groups |-> groups, cache |-> usersById,
                                  lookups |-> authorLookups, calls |-> upCalls,
                                  author |-> ""],
                                 messages, i, first)
        IN  /\ groups' = st.groups
            /\ usersById' = st.cache
            /\ authorLookups' = st.lookups
            /\ upCalls' = st.calls
            /\ resolved' = Append(resolved, st.author)
    /\ i' = i + 1
    /\ UNCHANGED <<now, zone, devMode, upstream, pc, archiveStartTime,
                   archiveEndTime, params, history, messages, pages, fault, err,
                   haveLookup, archive, run, firstGroups>>
    /\ UNCHANGED <<refVars, sendVars, transportVars, restVars>>

\* groupMessages returns its groups (line 352) and newConversationArchive
\* the archive (lines 379-385).
Finish ==
    /\ pc = "group"
    /\ i > Len(messages)
    /\ archive' = [MessageGroups |-> groups,
                   MessageCount  |-> Len(messages),
                   StartTime     |-> archiveStartTime,
                   EndTime       |-> archiveEndTime]
    /\ pc' = "done"
    /\ UNCHANGED <<now, zone, devMode, upstream, archiveStartTime, archiveEndTime,
                   params, history, messages, pages, fault, err, usersById,
                   haveLookup, groups, i, authorLookups, upCalls, resolved, run,
                   firstGroups>>
    /\ UNCHANGED <<refVars, sendVars, transportVars, restVars>>

\* groupMessages called once more on the same list, with the same upstream
\* user directory: a new UserLookup, new groups.
Rerun ==
    /\ pc = "done"
    /\ run = 1
    /\ run' = 2
    /\ firstGroups' = groups
    /\ pc' = "lookup"
    /\ usersById' = EmptyCache
    /\ haveLookup' = FALSE
    /\ groups' = <<>>
    /\ i' = 1
    /\ authorLookups' = 0
    /\ upCalls' = 0
    /\ resolved' = <<>>
    /\ archive' = NoArchive
    /\ UNCHANGED <<now, zone, devMode, upstream, archiveStartTime, archiveEndTime,
                   params, history, messages, pages, fault, err>>
    /\ UNCHANGED <<refVars, sendVars, transportVars, restVars>>

---------------------------------------------------------------------------
(* Conversations (src/app/conversations.go:24-260).                        *)

NilChannel == [ID |-> "", User |-> "", Kind |-> ""]

\* A Conversation: the Go type as `variant'; `channel' is the field channel,
\* im or mpim; `user' the DM's user; `users' the multi-party DM's users,
\* nil until usersSet.
NoConversation ==
    [variant |-> "", channel |-> NilChannel, user |-> NilUser,
     users |-> <<>>, usersSet |-> FALSE]

\* &ChannelConversation{}, &PrivateChannelConversation{}, ... of lines
\* 248-254.
NewConversation(variant) == [NoConversation EXCEPT !.variant = variant]

Variants ==
    {"ChannelConversation", "PrivateChannelConversation",
     "DirectMessageConversation", "MultiPartyDirectMessageConversation"}

\* Id(): c.channel.ID, c.im.ID, c.mpim.ID.
Id(c) == c.channel.ID

\* A ToRef whose multi-party type string is not the one
\* getConversationFromRef knows.
ToRefShortType(c) ==
    IF c.variant = "ChannelConversation" THEN <<"channel", c.channel.ID>>
    ELSE IF c.variant = "PrivateChannelConversation"
    THEN <<"private-channel", c.channel.ID>>
    ELSE IF c.variant = "DirectMessageConversation" THEN <<"dm", c.channel.ID>>
    ELSE <<"mpdm", c.channel.ID>>

\* ToRef() of the four types (lines 57-59, 94-96, 134-136, 185-187).
ToRef(c) ==
    IF c.variant = "ChannelConversation" THEN <<"channel", c.channel.ID>>
    ELSE IF c.variant = "PrivateChannelConversation"
    THEN <<"private-channel", c.channel.ID>>
    ELSE IF c.variant = "DirectMessageConversation" THEN <<"dm", c.channel.ID>>
    ELSE <<"mpdm-group", c.channel.ID>>

\* The type chain of getConversationFromRef (lines 247-257): the Go type
\* for a type string, "" for the error return.
VariantOfType(conversationType) ==
    IF conversationType = "channel" THEN "ChannelConversation"
    ELSE IF conversationType = "private-channel" THEN "PrivateChannelConversation"
    ELSE IF conversationType = "dm" THEN "DirectMessageConversation"
    ELSE IF conversationType = "mpdm-group" THEN "MultiPartyDirectMessageConversation"
    ELSE ""

\* The upstream conversations: slackClient.GetConversationInfo(ref, false)
\* succeeds for these ids and returns the channel of that id.
ConversationInfo ==
    [id \in {"C1", "G1", "D1", "D9", "M1"} |->
        [ID   |-> id,
         User |-> (IF id = "D1" THEN "U2" ELSE IF id = "D9" THEN "U9" ELSE ""),
         Kind |-> (IF id = "C1" THEN "channel" ELSE IF id = "G1" THEN "group"
                   ELSE IF id = "M1" THEN "mpim" ELSE "im")]]

\* The branch of getConversations (lines 285-312) a listed conversation
\* takes: the Go type it is wrapped in.
VariantOfKind(kind) ==
    IF kind = "channel" THEN "ChannelConversation"
    ELSE IF kind = "group" THEN "PrivateChannelConversation"
    ELSE IF kind = "mpim" THEN "MultiPartyDirectMessageConversation"
    ELSE "DirectMessageConversation"

\* The conversations getConversations lists, as ToRef reads them.
ListedConversations ==
    {[NoConversation EXCEPT !.variant = VariantOfKind(ConversationInfo[id].Kind),
                            !.channel = ConversationInfo[id]] :
        id \in DOMAIN ConversationInfo}

\* authTest.UserID: the user id of the authenticated account.
AuthUserID == "U0"

\* Limit of the GetUsersInConversation request (line 213); the cursor of
\* the response is dropped.
MembersLimit == 100

\* slackClient.GetUsersInConversation: the first Limit member ids.
GetUsersInConversation(all) ==
    SubSeq(all, 1, IF Len(all) < MembersLimit THEN Len(all) ELSE MembersLimit)

\* A loop that resolves every member, the account's own id too.
SkipsNoMember(userId) == FALSE

\* `if userId == authTest.UserID { continue }' (lines 220-222).
SkipsMember(userId) == userId = AuthUserID

\* Error kinds of app.go:26-32.
AppErrorTypeInternal == "Internal"

AppErrorTypeSlackFetch == "SlackFetch"

AppErrorTypeRedirect == "Redirect"

AppErrorTypeBadInput == "BadInput"

NoAppError == [Type |-> "", Code |-> 0]

\* SlackFetchError (app.go:71-78)
SlackFetchError == [Type |-> AppErrorTypeSlackFetch, Code |-> 500]

\* BadRequest (app.go:98-105)
BadRequest == [Type |-> AppErrorTypeBadInput, Code |-> 400]

\* handleAppError (app.go:209-234): whether it mails the operator.
SendsAppErrorMail(e, dev) ==
    e.Type # AppErrorTypeRedirect /\ e.Type # AppErrorTypeBadInput /\ ~dev

\* conversationArchiveUrl (lines 18-22): the link of a listed conversation
\* carries its ToRef as {type} and {ref}.
LinkToArchive ==
    /\ hpc = "idle"
    /\ origin # NoConversation
    /\ reqType' = ToRef(origin)[1]
    /\ reqRef' = ToRef(origin)[2]
    /\ linked' = TRUE
    /\ hpc' = "request"
    /\ UNCHANGED <<origin, mpimMembers, isDev, conversation, refLookup, memberIds,
                   mi, loaded, apiCalls, upFailed, appError, mails, status>>
    /\ UNCHANGED <<archiveVars, sendVars, transportVars, restVars>>

\* A request whose {type} and {ref} are whatever the client wrote
\* (main.go:315, 476-478).
TypedRequest ==
    /\ hpc = "idle"
    /\ origin = NoConversation
    /\ reqType' \in {"channel", "private-channel", "dm", "mpdm-group",
                     "mpdm", "Channel", ""}
    /\ reqRef' \in {"C1", "M1", "X9"}
    /\ linked' = FALSE
    /\ hpc' = "request"
    /\ UNCHANGED <<origin, mpimMembers, isDev, conversation, refLookup, memberIds,
                   mi, loaded, apiCalls, upFailed, appError, mails, status>>
    /\ UNCHANGED <<archiveVars, sendVars, transportVars, restVars>>

\* getConversationFromRef, lines 246-257: the empty conversation of the
\* type, or the error return.
GetConversationFromRef ==
    /\ hpc = "request"
    /\ conversation' = NewConversation(VariantOfType(reqType))
    /\ hpc' = IF VariantOfType(reqType) = "" THEN "failed" ELSE "info"
    /\ UNCHANGED <<origin, mpimMembers, isDev, reqType, reqRef, linked, refLookup,
                   memberIds, mi, loaded, apiCalls, upFailed, appError, mails,
                   status>>
    /\ UNCHANGED <<archiveVars, sendVars, transportVars, restVars>>

\* InitFromRef of the four types (lines 61-65, 98-102, 138-150, 189-196),
\* up to the call of loadUsers.  `okInfo' and `okUser' say whether the
\* upstream answers GetConversationInfo and GetUserInfo.
InitFromRef ==
    /\ hpc = "info"
    /\ \E okInfo \in BOOLEAN, okUser \in BOOLEAN :
        LET found  == okInfo /\ reqRef \in DOMAIN ConversationInfo
            info   == IF found THEN ConversationInfo[reqRef] ELSE NilChannel
            isDm   == conversation.variant = "DirectMessageConversation"
            isMpdm == conversation.variant = "MultiPartyDirectMessageConversation"
            hasUser == okUser /\ info.User \in DOMAIN UserInfo
        IN  /\ conversation' =
                  IF ~found /\ (isDm \/ isMpdm) THEN conversation
                  ELSE IF isDm /\ hasUser
                  THEN [conversation EXCEPT !.channel = info, !.user = UserInfo[info.User]]
                  ELSE [conversation EXCEPT !.channel = info]
            /\ apiCalls' = apiCalls + (IF found /\ isDm THEN 2 ELSE 1)
            /\ upFailed' = (upFailed \/ ~found \/ (isDm /\ ~hasUser))
            /\ hpc' = IF ~found \/ (isDm /\ ~hasUser) THEN "failed"
                      ELSE IF isMpdm THEN "loadUsers"
                      ELSE "resolved"
    /\ UNCHANGED <<origin, mpimMembers, isDev, reqType, reqRef, linked, refLookup,
                   memberIds, mi, loaded, appError, mails, status>>
    /\ UNCHANGED <<archiveVars, sendVars, transportVars, restVars>>

\* loadUsers and loadUsersWithLookup up to the loop (lines 198-218):
\* newUserLookup, AuthTest, GetUsersInConversation, each of which may fail.
LoadUsers ==
    /\ hpc = "loadUsers"
    /\ \E okUsers \in BOOLEAN, okAuth \in BOOLEAN, okMembers \in BOOLEAN :
        /\ refLookup' = IF okUsers THEN BulkCache ELSE refLookup
        /\ memberIds' = IF okUsers /\ okAuth /\ okMembers
                        THEN GetUsersInConversation(mpimMembers) ELSE memberIds
        /\ apiCalls' = apiCalls + (IF ~okUsers THEN 1 ELSE IF ~okAuth THEN 2 ELSE 3)
        /\ upFailed' = (upFailed \/ ~(okUsers /\ okAuth /\ okMembers))
        /\ hpc' = IF okUsers /\ okAuth /\ okMembers THEN "members" ELSE "failed"
    /\ mi' = 1
    /\ loaded' = <<>>
    /\ UNCHANGED <<origin, mpimMembers, isDev, reqType, reqRef, linked,
                   conversation, appError, mails, status>>
    /\ UNCHANGED <<archiveVars, sendVars, transportVars, restVars>>

\* One iteration of the loop of lines 219-228.
LoadUserStep ==
    /\ hpc = "members"
    /\ mi <= Len(memberIds)
    /\ LET userId == memberIds[mi]
           r      == GetUser(refLookup, userId)
       IN  IF SkipsMember(userId)
           THEN UNCHANGED <<refLookup, loaded, apiCalls, upFailed, hpc>>
           ELSE /\ refLookup' = r.cache
                /\ apiCalls' = apiCalls + r.calls
                /\ upFailed' = (upFailed \/ r.failed)
                /\ loaded' = IF r.failed THEN loaded ELSE Append(loaded, r.user)
                /\ hpc' = IF r.failed THEN "failed" ELSE hpc
    /\ mi' = mi + 1
    /\ UNCHANGED <<origin, mpimMembers, isDev, reqType, reqRef, linked,
                   conversation, memberIds, appError, mails, status>>
    /\ UNCHANGED <<archiveVars, sendVars, transportVars, restVars>>

\* Lines 229-230: c.users = users.
LoadUsersDone ==
    /\ hpc = "members"
    /\ mi > Len(memberIds)
    /\ conversation' = [conversation EXCEPT !.users = loaded, !.usersSet = TRUE]
    /\ hpc' = "resolved"
    /\ UNCHANGED <<origin, mpimMembers, isDev, reqType, reqRef, linked, refLookup,
                   memberIds, mi, loaded, apiCalls, upFailed, appError, mails,
                   status>>
    /\ UNCHANGED <<archiveVars, sendVars, transportVars, restVars>>

\* conversationArchiveHandler on an error of getConversationFromRef
\* (main.go:480-482), and handleAppError on what it returns
\* (app.go:161-163, 209-234).
HandleRefError ==
    /\ hpc = "failed"
    /\ appError' = SlackFetchError
    /\ mails' = IF SendsAppErrorMail(SlackFetchError, isDev) THEN mails + 1 ELSE mails
    /\ status' = SlackFetchError.Code
    /\ hpc' = "responded"
    /\ UNCHANGED <<origin, mpimMembers, isDev, reqType, reqRef, linked,
                   conversation, refLookup, memberIds, mi, loaded, apiCalls,
                   upFailed>>
    /\ UNCHANGED <<archiveVars, sendVars, transportVars, restVars>>

---------------------------------------------------------------------------
(* Accounts (src/app/account.go:15-67).                                    *)

\* The names the time zone database knows, as far as the model goes.
Locations == {"UTC", "America/Los_Angeles", "Africa/Cairo", "America/Santiago"}

\* A nil *time.Location.
NilLocation == "nil"

\* time.LoadLocation: UTC for "" and "UTC", the named location of the
\* database, else an error and a nil location.
LoadLocation(name) ==
    IF name = "" THEN [location |-> "UTC", failed |-> FALSE]
    ELSE IF name \in Locations THEN [location |-> name, failed |-> FALSE]
    ELSE [location |-> NilLocation, failed |-> TRUE]

\* initAccount without the fallback of lines 42-44.
initAccountNoFallback(account) ==
    LET loc == LoadLocation(account.TimezoneName)
    IN  [account |-> [account EXCEPT !.TimezoneLocation = loc.location],
         failed  |-> loc.failed]

\* initAccount (account.go:41-51)
initAccount(account) ==
    LET named  == IF account.TimezoneName = ""
                  THEN [account EXCEPT !.TimezoneName = "America/Los_Angeles"]
                  ELSE account
        loc   == LoadLocation(named.TimezoneName)
    IN  [account |-> [named EXCEPT !.TimezoneLocation = loc.location],
         failed  |-> loc.failed]

NilAccount ==
    [SlackUserId |-> "", TimezoneName |-> "", TimezoneLocation |-> NilLocation]

\* getAccount (account.go:26-39); stored are the Account entities of the
\* datastore, each under the key of its SlackUserId (Account.Put, line 70),
\* and getOk is whether datastore.Get could reach the datastore.
getAccount(stored, slackUserId, getOk) ==
    LET at == {k \in DOMAIN stored : stored[k].SlackUserId = slackUserId}
    IN  IF ~getOk \/ slackUserId = "" \/ at = {}
        THEN [account |-> NilAccount, failed |-> TRUE]
        ELSE LET a == initAccount(stored[CHOOSE k \in at : TRUE])
             IN  IF a.failed THEN [account |-> NilAccount, failed |-> TRUE]
                 ELSE [account |-> a.account, failed |-> FALSE]

---------------------------------------------------------------------------
(* The scheduled send (src/app/main.go:516-642, src/app/account.go).       *)

\* An emptiness told by the count of fetched messages.
EmptyByCount(a) == a.MessageCount = 0

\* ConversationArchive.Empty (conversations.go:329-336): no group with a
\* message.
Empty(a) ==
    \A g \in 1..Len(a.MessageGroups) : ~(Len(a.MessageGroups[g].Messages) > 0)

NoSend ==
    [called |-> FALSE, address |-> "", built |-> FALSE, archive |-> NoArchive,
     fetched |-> FALSE, mailCalled |-> FALSE, sent |-> FALSE, err |-> ""]

\* Account.GetDigestEmailAddress (account.go:81-93): the stored address, or
\* else the address of the Slack profile; `up.profile' is what GetUserInfo
\* gives ("failed" for an error, "" for a profile without address).
GetDigestEmailAddress(account, up) ==
    IF Len(account.DigestEmailAddress) > 0
    THEN [address |-> account.DigestEmailAddress, err |-> ""]
    ELSE IF up.profile = "failed" THEN [address |-> "", err |-> "GetUserInfo"]
    ELSE IF Len(up.profile) > 0 THEN [address |-> up.profile, err |-> ""]
    ELSE [address |-> "", err |-> "No email addresses found in Slack profile"]

\* sendConversationArchive without the check for an empty archive.
sendConversationArchiveAlways(account, up) ==
    LET email == GetDigestEmailAddress(account, up)
        base  == [NoSend EXCEPT !.called = TRUE, !.address = email.address]
    IN  IF email.err # "" THEN [base EXCEPT !.err = email.err]
        ELSE IF email.address = "disabled" THEN base
        ELSE IF up.archive = NoArchive
        THEN [base EXCEPT !.fetched = TRUE, !.err = "newConversationArchive"]
        ELSE LET built == [base EXCEPT !.fetched = TRUE, !.built = TRUE,
                                       !.archive = up.archive]
             IN  IF ~up.templateOk THEN [built EXCEPT !.err = "template"]
                 ELSE IF ~up.teamOk THEN [built EXCEPT !.err = "GetTeamInfo"]
                 ELSE [built EXCEPT !.mailCalled = TRUE, !.sent = TRUE,
                                    !.err = IF up.mailOk THEN "" ELSE "mail.Send"]

\* sendConversationArchive (main.go:605-642) for an account, `up' being
\* what the collaborators do during the call: the profile address, the
\* archive newConversationArchive returns (NoArchive for its error), whether
\* the template executes, GetTeamInfo answers and mail.Send succeeds.
sendConversationArchive(account, up) ==
    LET email == GetDigestEmailAddress(account, up)
        base  == [NoSend EXCEPT !.called = TRUE, !.address = email.address]
    IN  IF email.err # "" THEN [base EXCEPT !.err = email.err]
        ELSE IF email.address = "disabled" THEN base
        ELSE IF up.archive = NoArchive
        THEN [base EXCEPT !.fetched = TRUE, !.err = "newConversationArchive"]
        ELSE LET built == [base EXCEPT !.fetched = TRUE, !.built = TRUE,
                                       !.archive = up.archive]
             IN  IF Empty(up.archive) THEN built
                 ELSE IF ~up.templateOk THEN [built EXCEPT !.err = "template"]
                 ELSE IF ~up.teamOk THEN [built EXCEPT !.err = "GetTeamInfo"]
                 ELSE [built EXCEPT !.mailCalled = TRUE, !.sent = TRUE,
                                    !.err = IF up.mailOk THEN "" ELSE "mail.Send"]

\* Archives newConversationArchive may return: of no message; of two
\* messages, both hidden or without author; of one grouped message.
BuiltArchives ==
    {[NoArchive EXCEPT !.MessageCount = 0],
     [NoArchive EXCEPT !.MessageCount = 2],
     [NoArchive EXCEPT !.MessageCount = 1,
                       !.MessageGroups = <<[Messages |-> <<1>>, Author |-> UserInfo["U1"]]>>]}

\* What the collaborators do during one sendConversationArchive: everything
\* works, over each archive; or one of them fails.
SendOutcomes ==
    LET works == [profile |-> "me@example.org",
                  archive |-> CHOOSE a \in BuiltArchives : ~Empty(a),
                  templateOk |-> TRUE, teamOk |-> TRUE, mailOk |-> TRUE]
    IN  {[works EXCEPT !.archive = a] : a \in BuiltArchives}
        \cup {[works EXCEPT !.archive = NoArchive],
              [works EXCEPT !.profile = "failed"],
              [works EXCEPT !.profile = ""],
              [works EXCEPT !.templateOk = FALSE],
              [works EXCEPT !.teamOk = FALSE],
              [works EXCEPT !.mailOk = FALSE]}

\* InternalError (app.go:80-87)
InternalError == [Type |-> AppErrorTypeInternal, Code |-> 500]

NoCron == [ran |-> FALSE, queryOk |-> FALSE, error |-> NoAppError, enqueued |-> {}]

\* getAllAccounts (account.go:53-67): the records of the query, each
\* initialised; an error of the query or of any initAccount fails the whole.
getAllAccounts(records, queryOk) ==
    IF ~queryOk THEN [accounts |-> <<>>, failed |-> TRUE]
    ELSE IF \E k \in 1..Len(records) : initAccount(records[k]).failed
    THEN [accounts |-> <<>>, failed |-> TRUE]
    ELSE [accounts |-> [k \in 1..Len(records) |-> initAccount(records[k]).account],
          failed   |-> FALSE]

\* archiveCronHandler (main.go:516-528) under AppHandler.ServeHTTP and
\* handleAppError: a task per account, or the internal error.
ArchiveCron ==
    /\ spc = "cron"
    /\ \E queryOk \in BOOLEAN :
        LET all == getAllAccounts(accounts, queryOk)
        IN  /\ queue' = [k \in 1..Len(all.accounts) |-> k]
            /\ cron' = [ran      |-> TRUE,
                        queryOk  |-> queryOk,
                        error    |-> IF all.failed THEN InternalError ELSE NoAppError,
                        enqueued |-> {k : k \in 1..Len(all.accounts)}]
            /\ opMails' = IF all.failed /\ SendsAppErrorMail(InternalError, isDev)
                          THEN opMails + 1 ELSE opMails
    /\ spc' = "tasks"
    /\ UNCHANGED <<accounts, cur, convs, ck, sentCount, sendErr, sendFailed,
                   attempted, lastSend, taskResults, digests>>
    /\ UNCHANGED <<archiveVars, refVars, transportVars, restVars>>

\* What a finished task leaves: its account, how many conversations the
\* account had, whether a sendConversationArchive failed, the error the task
\* returned to the queue, whether it mailed the operator.
TaskResult(account, n, failed, e, dev) ==
    [account |-> account, conversations |-> n, sendFailed |-> failed,
     err |-> e, mailed |-> (e # "" /\ ~dev)]

\* The sendArchive task from its start to the loop of sendArchive
\* (main.go:532-538, 553-559): getAccount, then getConversations.
TaskStart ==
    /\ spc = "tasks"
    /\ queue # <<>>
    /\ queue' = Tail(queue)
    /\ cur' = Head(queue)
    /\ \E okAccount \in BOOLEAN, okList \in BOOLEAN :
        IF ~okAccount
        THEN /\ taskResults' = Append(taskResults,
                    [TaskResult(Head(queue), 0, FALSE, "getAccount", isDev)
                        EXCEPT !.mailed = FALSE])
             /\ UNCHANGED <<spc, convs, opMails>>
        ELSE IF ~okList
        THEN /\ taskResults' = Append(taskResults,
                    TaskResult(Head(queue), 0, FALSE, "getConversations", isDev))
             /\ opMails' = IF isDev THEN opMails ELSE opMails + 1
             /\ UNCHANGED <<spc, convs>>
        ELSE /\ convs' \in 0..MaxConvs
             /\ spc' = "sending"
             /\ UNCHANGED <<taskResults, opMails>>
    /\ ck' = 1
    /\ sentCount' = 0
    /\ sendErr' = ""
    /\ sendFailed' = FALSE
    /\ UNCHANGED <<accounts, cron, attempted, lastSend, digests>>
    /\ UNCHANGED <<archiveVars, refVars, transportVars, restVars>>

\* One iteration of the loop of sendArchive (main.go:560-568), `up' being
\* what the collaborators do during this sendConversationArchive.
SendNext ==
    /\ spc = "sending"
    /\ ck <= convs
    /\ \E up \in SendOutcomes :
       LET r == sendConversationArchive(accounts[cur], up)
       IN  /\ lastSend' = r
           /\ attempted' = attempted \cup {<<cur, ck>>}
           /\ digests' = IF r.mailCalled THEN digests + 1 ELSE digests
           /\ sendFailed' = (sendFailed \/ r.err # "")
           /\ IF r.err # ""
              THEN /\ spc' = "return"
                   /\ sendErr' = ""
                   /\ UNCHANGED <<sentCount, ck>>
              ELSE /\ sentCount' = IF r.sent THEN sentCount + 1 ELSE sentCount
                   /\ ck' = ck + 1
                   /\ UNCHANGED <<spc, sendErr>>
    /\ UNCHANGED <<accounts, cron, queue, cur, convs, taskResults, opMails>>
    /\ UNCHANGED <<archiveVars, refVars, transportVars, restVars>>

\* sendArchive returns (main.go:563, 569) and the task ends on what it
\* returned (main.go:539-550).
TaskEnd ==
    /\ \/ spc = "return"
       \/ spc = "sending" /\ ck > convs
    /\ taskResults' = Append(taskResults,
           TaskResult(cur, convs, sendFailed, sendErr, isDev))
    /\ opMails' = IF sendErr # "" /\ ~isDev THEN opMails + 1 ELSE opMails
    /\ spc' = "tasks"
    /\ UNCHANGED <<accounts, cron, queue, cur, convs, ck, sentCount, sendErr,
                   sendFailed, attempted, lastSend, digests>>
    /\ UNCHANGED <<archiveVars, refVars, transportVars, restVars>>

---------------------------------------------------------------------------
(* The HTTP transport of concurrent invocations (src/app/app.go:150-164,   *)
(* src/app/account.go:95-106).                                             *)

\* An invocation begins: AppHandler.ServeHTTP (app.go:153-160), or
\* Account.NewSlackClient for a signed-in handler or a task
\* (account.go:99-104), makes a context with a 60-second timeout and stores
\* a transport over it in the package variable http.DefaultTransport.
SetTransport(p) ==
    /\ cpc[p] = "idle"
    /\ defaultTransport' = p
    /\ cpc' = [cpc EXCEPT ![p] = "running"]
    /\ UNCHANGED <<made, callLog, ctxDone>>
    /\ UNCHANGED <<archiveVars, refVars, sendVars, restVars>>

\* An upstream call of the invocation's slack client, whose http.Client has
\* no transport of its own and takes http.DefaultTransport as it stands at
\* the call; a transport over an ended context fails the call.
UpstreamCall(p) ==
    /\ cpc[p] = "running"
    /\ made[p] < MaxCalls
    /\ made' = [made EXCEPT ![p] = @ + 1]
    /\ callLog' = callLog \cup {[by     |-> p,
                                 call   |-> made[p] + 1,
                                 via    |-> defaultTransport,
                                 failed |-> defaultTransport \in ctxDone]}
    /\ UNCHANGED <<defaultTransport, cpc, ctxDone>>
    /\ UNCHANGED <<archiveVars, refVars, sendVars, restVars>>

\* The 60 seconds of an invocation's context run out before it returns.
ContextTimeout(p) ==
    /\ cpc[p] = "running"
    /\ p \notin ctxDone
    /\ ctxDone' = ctxDone \cup {p}
    /\ UNCHANGED <<defaultTransport, cpc, made, callLog>>
    /\ UNCHANGED <<archiveVars, refVars, sendVars, restVars>>

\* The invocation returns; its request context ends with it.
Return(p) ==
    /\ cpc[p] = "running"
    /\ cpc' = [cpc EXCEPT ![p] = "done"]
    /\ ctxDone' = ctxDone \cup {p}
    /\ UNCHANGED <<defaultTransport, made, callLog>>
    /\ UNCHANGED <<archiveVars, refVars, sendVars, restVars>>

---------------------------------------------------------------------------
(* Thumbnail URL tokens (src/app/files.go).  A byte is a number of Bytes,  *)
(* a Go string or []byte is the sequence of its bytes, and a token is the  *)
(* sequence of its characters.                                             *)

Bytes == 0..7

\* What a byte is to encoding/json: the three pieces of the object's syntax
\* around the two string values, the bytes a string value may hold, and a
\* byte no string value may hold unescaped.
Code ==
    [open |-> 0, sep |-> 1, close |-> 2, letter |-> 3, digit |-> 4,
     replacement |-> 5, invalid |-> 6, control |-> 7]

NilRef == [FileId |-> <<>>, SlackUserId |-> <<>>]

\* encoding/json on a string value, either way: each byte that is no valid
\* UTF-8 becomes the replacement character U+FFFD.
Coerce(str) ==
    [k \in DOMAIN str |->
        IF str[k] = Code.invalid THEN Code.replacement ELSE str[k]]

\* json.Marshal(f) (files.go:43)
Marshal(f) ==
    <<Code.open>> \o Coerce(f.FileId) \o <<Code.sep>>
        \o Coerce(f.SlackUserId) \o <<Code.close>>

\* json.Unmarshal(b, &f) (files.go:79)
Unmarshal(b) ==
    LET seps == {k \in 1..Len(b) : b[k] = Code.sep}
        text == {Code.letter, Code.digit, Code.replacement, Code.invalid}
    IN  IF /\ Len(b) >= 3
           /\ b[1] = Code.open
           /\ b[Len(b)] = Code.close
           /\ Cardinality(seps) = 1
           /\ \A k \in 2..(Len(b) - 1) : k \in seps \/ b[k] \in text
        THEN LET s == CHOOSE k \in seps : TRUE
             IN  [failed |-> FALSE,
                  f |-> [FileId      |-> Coerce(SubSeq(b, 2, s - 1)),
                         SlackUserId |-> Coerce(SubSeq(b, s + 1, Len(b) - 1))]]
        ELSE [failed |-> TRUE, f |-> NilRef]

\* The exclusive or of two bytes.
RECURSIVE Xor(_, _)
Xor(a, b) ==
    IF a = 0 THEN b
    ELSE IF b = 0 THEN a
    ELSE ((a + b) % 2) + 2 * Xor(a \div 2, b \div 2)

\* aes.NewCipher (files.go:47, 68): a block cipher for a key of 16, 24 or 32
\* bytes, and a nil block with a KeySizeError for any other key.
NewCipher(key) ==
    IF key.size \in {16, 24, 32}
    THEN [failed |-> FALSE, block |-> key]
    ELSE [failed |-> TRUE, block |-> [size |-> 0, k |-> 0]]

\* block.Encrypt: a keyed function of one block, standing for AES.
Encrypt(block, src) ==
    [j \in 1..BlockSize |->
        (3 * src[j] + src[(j % BlockSize) + 1] + block.k + j) % Cardinality(Bytes)]

\* XORKeyStream of the crypto/cipher CFB stream: each block of the source is
\* xor-ed with the encryption of the previous block of ciphertext, the iv
\* first.
RECURSIVE CFB(_, _, _, _)
CFB(block, prev, src, decrypt) ==
    IF src = <<>> THEN <<>>
    ELSE LET n   == IF Len(src) < BlockSize THEN Len(src) ELSE BlockSize
             ks  == Encrypt(block, prev)
             out == [j \in 1..n |-> Xor(src[j], ks[j])]
             fed == IF decrypt THEN SubSeq(src, 1, n) ELSE out
         IN  out \o (IF Len(src) <= BlockSize THEN <<>>
                     ELSE CFB(block, fed, SubSeq(src, n + 1, Len(src)), decrypt))

\* cipher.NewCFBEncrypter(block, iv).XORKeyStream (files.go:58-59)
NewCFBEncrypter(block, iv, src) == CFB(block, iv, src, FALSE)

\* A decrypter that feeds its own output back, as the encrypter does.
NewCFBDecrypterFeedingOutput(block, iv, src) == CFB(block, iv, src, FALSE)

\* cipher.NewCFBDecrypter(block, iv).XORKeyStream (files.go:76-77)
NewCFBDecrypter(block, iv, src) == CFB(block, iv, src, TRUE)

\* base64.URLEncoding, a character for a byte.
Alphabet == <<"A", "B", "C", "D", "E", "F", "G", "H">>

\* base64.URLEncoding.EncodeToString (files.go:60)
EncodeToString(b) == [k \in DOMAIN b |-> Alphabet[b[k] + 1]]

\* base64.URLEncoding.DecodeString (files.go:64): a CorruptInputError for a
\* character outside the alphabet.
DecodeString(s) ==
    IF \A k \in DOMAIN s : \E v \in Bytes : Alphabet[v + 1] = s[k]
    THEN [failed |-> FALSE,
          bytes  |-> [k \in DOMAIN s |-> CHOOSE v \in Bytes : Alphabet[v + 1] = s[k]]]
    ELSE [failed |-> TRUE, bytes |-> <<>>]

NoToken == [failed |-> TRUE, token |-> <<>>]

\* FileUrlRef.Encode (files.go:42-61); rand is what io.ReadFull(rand.Reader,
\* iv) did.
Encode(f, key, rand) ==
    LET b == Marshal(f)
        c == NewCipher(key)
    IN  IF c.failed \/ rand.failed THEN NoToken
        ELSE [failed |-> FALSE,
              token  |-> EncodeToString(rand.iv \o NewCFBEncrypter(c.block, rand.iv, b))]

NotDecoded == [outcome |-> "", f |-> NilRef]

\* DecodeFileUrlRef (files.go:63-84).  The error of aes.NewCipher is not
\* looked at, so that block.BlockSize() (line 69) is called on the nil block
\* of an unusable key.
DecodeFileUrlRef(token, key) ==
    LET d == DecodeString(token)
        c == NewCipher(key)
    IN  IF d.failed THEN [outcome |-> "error", f |-> NilRef]
        ELSE IF c.failed THEN [outcome |-> "panic", f |-> NilRef]
        ELSE IF Len(d.bytes) <= BlockSize THEN [outcome |-> "error", f |-> NilRef]
        ELSE LET iv == SubSeq(d.bytes, 1, BlockSize)
                 b  == NewCFBDecrypter(c.block, iv,
                                       SubSeq(d.bytes, BlockSize + 1, Len(d.bytes)))
                 u  == Unmarshal(b)
             IN  IF u.failed THEN [outcome |-> "error", f |-> NilRef]
                 ELSE [outcome |-> "ref", f |-> u.f]

\* What io.ReadFull(rand.Reader, iv) may do.
Rands ==
    {[failed |-> TRUE, iv |-> <<>>]}
        \cup {[failed |-> FALSE, iv |-> v] : v \in [1..BlockSize -> {0, 5}]}

\* The tokens a request may carry that are not the token Encode made: one
\* character of it altered, a prefix of no more than one block, a character
\* outside the alphabet appended; and any token when Encode made none.
Corrupted(enc) ==
    IF enc.failed THEN {<<>>, <<"!">>, <<"A", "D", "C", "F">>}
    ELSE LET t == enc.token
             b == DecodeString(t).bytes
         IN  {[t EXCEPT ![k] = Alphabet[Xor(b[k], d) + 1]] :
                  k \in DOMAIN t, d \in {1, 7}}
                 \cup {SubSeq(t, 1, n) : n \in 0..BlockSize}
                 \cup {t \o <<"!">>}

\* MessageFile.ThumbnailUrl (part_005:234-241): the token of a thumbnail URL.
EncodeRef ==
    /\ fpc = "render"
    /\ \E rand \in Rands : encoded' = Encode(fileRef, fileUrlRefEncryptionKey, rand)
    /\ fpc' = "issued"
    /\ UNCHANGED <<fileUrlRefEncryptionKey, fileRef, presented, intact, decoded>>
    /\ UNCHANGED <<archiveVars, refVars, sendVars, transportVars, signedInVars,
                   lookupVars, renderVars>>

\* A request for the thumbnail with the token as it was issued.
PresentToken ==
    /\ fpc = "issued"
    /\ ~encoded.failed
    /\ presented' = encoded.token
    /\ intact' = TRUE
    /\ fpc' = "requested"
    /\ UNCHANGED <<fileUrlRefEncryptionKey, fileRef, encoded, decoded>>
    /\ UNCHANGED <<archiveVars, refVars, sendVars, transportVars, signedInVars,
                   lookupVars, renderVars>>

\* A request for the thumbnail with any other token.
PresentCorrupted ==
    /\ fpc = "issued"
    /\ \E t \in Corrupted(encoded) : presented' = t
    /\ intact' = FALSE
    /\ fpc' = "requested"
    /\ UNCHANGED <<fileUrlRefEncryptionKey, fileRef, encoded, decoded>>
    /\ UNCHANGED <<archiveVars, refVars, sendVars, transportVars, signedInVars,
                   lookupVars, renderVars>>

\* The thumbnail endpoint decodes the {ref} of the request.
Decode ==
    /\ fpc = "requested"
    /\ decoded' = DecodeFileUrlRef(presented, fileUrlRefEncryptionKey)
    /\ fpc' = "done"
    /\ UNCHANGED <<fileUrlRefEncryptionKey, fileRef, encoded, presented, intact>>
    /\ UNCHANGED <<archiveVars, refVars, sendVars, transportVars, signedInVars,
                   lookupVars, renderVars>>

---------------------------------------------------------------------------
(* Account lookups and signed-in requests (src/app/account.go:26-67,       *)
(* src/app/app.go:138-140, 166-195, 209-234).                              *)

NoLookup == [op |-> "", key |-> "", accounts |-> <<>>, failed |-> FALSE]

\* A nil *AppSignedInState: the wrapped function was not called.
NoState == [called |-> FALSE, Account |-> NilAccount]

\* NotSignedIn (app.go:138-140): the redirect to the route "index", which
\* main.go:306 registers, with the URL of the request as continue_url.
NotSignedIn(u) ==
    [Type    |-> AppErrorTypeRedirect,
     Code    |-> 302,
     Message |-> [route |-> "index", continue_url |-> u]]

\* ServeHTTP going on whenever the session holds a user id.
StopsWithoutSessionOnly(sess, got) == ~sess.ok

\* SignedInAppHandler.ServeHTTP, lines 172-182: the two conditions under
\* which it answers NotSignedIn and returns.
StopsNotSignedIn(sess, got) == ~sess.ok \/ got.failed

\* What the wrapped function may do with its state: upstream calls through
\* state.SlackClient, and the *AppError it returns.
FnOutcomes ==
    {[calls |-> n, error |-> e] :
        n \in 0..1, e \in {NoAppError, SlackFetchError, BadRequest}}

\* sendArchiveFunc (main.go:531-538): the account of a task, by its key.
LookUpAccount ==
    /\ apc = "request"
    /\ \E id \in {"U0", "U5", "U7"}, getOk \in BOOLEAN :
        LET got == getAccount(entities, id, getOk)
        IN  returned' = [op       |-> "getAccount",
                         key      |-> id,
                         accounts |-> IF got.failed THEN <<>> ELSE <<got.account>>,
                         failed   |-> got.failed]
    /\ apc' = "done"
    /\ UNCHANGED <<entities, session, url, fnState, slackClients>>
    /\ UNCHANGED <<archiveVars, refVars, sendVars, transportVars, fileVars,
                   lookupVars, renderVars>>

\* archiveCronHandler (main.go:518): all accounts.
ListAccounts ==
    /\ apc = "request"
    /\ \E queryOk \in BOOLEAN :
        LET all == getAllAccounts(entities, queryOk)
        IN  returned' = [op       |-> "getAllAccounts",
                         key      |-> "",
                         accounts |-> all.accounts,
                         failed   |-> all.failed]
    /\ apc' = "done"
    /\ UNCHANGED <<entities, session, url, fnState, slackClients>>
    /\ UNCHANGED <<archiveVars, refVars, sendVars, transportVars, fileVars,
                   lookupVars, renderVars>>

\* SignedInAppHandler.ServeHTTP (app.go:168-195) with handleAppError
\* (209-234) for what it or the wrapped function returns.
ServeHTTP ==
    /\ apc = "request"
    /\ \E getOk \in BOOLEAN, fn \in FnOutcomes :
        LET got  == IF session.ok THEN getAccount(entities, session.userId, getOk)
                    ELSE [account |-> NilAccount, failed |-> TRUE]
            stop == StopsNotSignedIn(session, got)
            e    == IF stop THEN NotSignedIn(url) ELSE fn.error
        IN  /\ returned' = IF session.ok
                           THEN [op       |-> "ServeHTTP",
                                 key      |-> session.userId,
                                 accounts |-> IF got.failed THEN <<>>
                                              ELSE <<got.account>>,
                                 failed   |-> got.failed]
                           ELSE returned
            /\ fnState' = IF stop THEN NoState
                          ELSE [called |-> TRUE, Account |-> got.account]
            /\ slackClients' = IF stop THEN slackClients ELSE slackClients + 1
            /\ apiCalls' = IF stop THEN apiCalls ELSE apiCalls + fn.calls
            /\ appError' = e
            /\ mails' = IF e # NoAppError /\ SendsAppErrorMail(e, isDev)
                        THEN mails + 1 ELSE mails
            /\ status' = IF e = NoAppError THEN 200 ELSE e.Code
    /\ apc' = "done"
    /\ UNCHANGED <<entities, session, url>>
    /\ UNCHANGED <<origin, mpimMembers, isDev, reqType, reqRef, linked, hpc,
                   conversation, refLookup, memberIds, mi, loaded, upFailed>>
    /\ UNCHANGED <<archiveVars, sendVars, transportVars, fileVars,
                   lookupVars, renderVars>>

---------------------------------------------------------------------------
(* One UserLookup over several calls (src/app/users.go, src/app/emoji.go). *)

\* UserLookup.GetUser as users.go:33-43 has it (and emoji.go:89-99): inside
\* the branch of a miss `user, err :=' declares a new user, so that the user
\* returned after a successful lookup is the nil of the failed map read.
GetUserShadowed(cache, userId) ==
    IF userId \in DOMAIN cache
    THEN [user |-> cache[userId], failed |-> FALSE, cache |-> cache, calls |-> 0]
    ELSE IF userId \in DOMAIN UserInfo
    THEN [user |-> NilUser, failed |-> FALSE,
          cache |-> Put(cache, userId, UserInfo[userId]), calls |-> 1]
    ELSE [user |-> NilUser, failed |-> TRUE, cache |-> cache, calls |-> 1]

\* newUserLookup (users.go:19-31, emoji.go:194-206)
newUserLookup(usersOk) ==
    IF usersOk THEN [usersById |-> BulkCache, failed |-> FALSE]
    ELSE [usersById |-> EmptyCache, failed |-> TRUE]

\* A UserLookup is made.
NewLookup ==
    /\ lpc = "new"
    /\ \E usersOk \in BOOLEAN :
        /\ lcache' = newUserLookup(usersOk).usersById
        /\ lpc' = IF usersOk THEN "ready" ELSE "failed"
    /\ UNCHANGED <<lmsg, lres, gid, gres>>
    /\ UNCHANGED <<archiveVars, refVars, sendVars, transportVars, fileVars,
                   signedInVars, renderVars>>

\* GetUser(gid) of users.go on the UserLookup.
CallGetUser ==
    /\ lpc = "ready"
    /\ Len(gres) < MaxRepeats
    /\ LET r == GetUserShadowed(lcache, gid)
       IN  /\ gres' = Append(gres, [user |-> r.user, failed |-> r.failed,
                                    calls |-> r.calls, before |-> lcache,
                                    after |-> r.cache])
           /\ lcache' = r.cache
    /\ UNCHANGED <<lpc, lmsg, lres, gid>>
    /\ UNCHANGED <<archiveVars, refVars, sendVars, transportVars, fileVars,
                   signedInVars, renderVars>>

\* GetUserForMessage of emoji.go on the UserLookup, for a message of the
\* author fields lmsg.
ResolveMessage ==
    /\ lpc = "ready"
    /\ Len(lres) < MaxRepeats
    /\ \E first \in DOMAIN lcache \cup {""} :
        LET r == GetUserForMessage(lcache, lmsg, first)
        IN  /\ lres' = Append(lres, [ID |-> r.user.ID, calls |-> r.calls,
                                     before |-> lcache, after |-> r.cache])
            /\ lcache' = r.cache
    /\ UNCHANGED <<lpc, lmsg, gid, gres>>
    /\ UNCHANGED <<archiveVars, refVars, sendVars, transportVars, fileVars,
                   signedInVars, renderVars>>

---------------------------------------------------------------------------
(* Rendering (src/unnamed/part_005:24-119, 263-278, 325-331).  A string of  *)
(* a message text is the sequence of its characters.                       *)

RECURSIVE Str(_)
\* The string of a sequence of characters.
Str(s) == IF s = <<>> THEN "" ELSE Head(s) \o Str(Tail(s))

\* strings.LastIndex for a one-character separator; 0 stands for -1.
LastIndex(s, c) ==
    IF \E k \in 1..Len(s) : s[k] = c
    THEN CHOOSE k \in 1..Len(s) : s[k] = c /\ \A j \in (k + 1)..Len(s) : s[j] # c
    ELSE 0

\* strings.HasPrefix
HasPrefix(s, p) == Len(s) >= Len(p) /\ SubSeq(s, 1, Len(p)) = p

\* strings.TrimPrefix
TrimPrefix(s, p) == IF HasPrefix(s, p) THEN SubSeq(s, Len(p) + 1, Len(s)) ELSE s

\* slackClient.GetChannelInfo(id) succeeds for these ids.
ChannelInfo == [id \in {"C1"} |-> [ID |-> id, Name |-> "general"]]

\* authTest.URL
TeamUrl == "https://team.slack.com/"

\* The callback of controlRegexp.ReplaceAllStringFunc in textToHtml
\* (part_005:54-104), for the text between the angle brackets; usersOk and
\* authOk are whether GetUsers and AuthTest succeed.  UserLookup.GetUser is
\* the one of users.go, the copy that imports the Slack package part_005
\* imports.
RenderControl(inner, usersOk, authOk) ==
    LET pipeIndex == LastIndex(inner, "|")
        control   == IF pipeIndex # 0 THEN SubSeq(inner, 1, pipeIndex - 1) ELSE inner
        pipeText  == IF pipeIndex # 0 THEN Str(SubSeq(inner, pipeIndex + 1, Len(inner)))
                     ELSE ""
        link(href, anchorText, lookup, n) ==
            [kind |-> "a", href |-> href,
             text |-> IF anchorText = "" THEN href ELSE anchorText,
             lookup |-> lookup, getUsers |-> n]
    IN  IF HasPrefix(control, <<"@", "U">>)
        THEN LET userId     == Str(TrimPrefix(control, <<"@">>))
                 userLookup == newUserLookup(usersOk)
                 got        == GetUserShadowed(userLookup.usersById, userId)
             IN  IF userLookup.failed
                 THEN link(Str(control), pipeText, "failed", 1)
                 ELSE IF got.failed
                 THEN link(Str(control), pipeText, "failed", 1)
                 ELSE IF got.user = NilUser
                 THEN [kind |-> "panic", href |-> "", text |-> "",
                       lookup |-> "ok", getUsers |-> 1]
                 ELSE link(IF authOk THEN TeamUrl \o "/team/" \o got.user.Name
                           ELSE Str(control),
                           "@" \o got.user.Name, "ok", 1)
        ELSE IF HasPrefix(control, <<"#", "C">>)
        THEN LET channelId == Str(TrimPrefix(control, <<"#">>))
             IN  IF channelId \in DOMAIN ChannelInfo
                 THEN link(IF authOk
                           THEN TeamUrl \o "/team/" \o ChannelInfo[channelId].Name
                           ELSE Str(control),
                           "#" \o ChannelInfo[channelId].Name, "ok", 0)
                 ELSE link(Str(control), pipeText, "failed", 0)
        ELSE IF HasPrefix(control, <<"!">>)
        THEN [kind |-> "b", href |-> "",
              text |-> "@" \o Str(TrimPrefix(control, <<"!">>)),
              lookup |-> "none", getUsers |-> 0]
        ELSE link(Str(control), pipeText, "none", 0)

\* MessageReaction.Summary (part_005:263-278) for the users of a reaction.
Summary(users, usersOk) ==
    LET userLookup == newUserLookup(usersOk)
        got(k)     == GetUserShadowed(userLookup.usersById, users[k])
    IN  IF userLookup.failed
        THEN [names |-> <<>>, failed |-> TRUE, panic |-> FALSE, getUsers |-> 1]
        ELSE [names    |-> [k \in DOMAIN users |->
                               IF got(k).failed THEN users[k] ELSE got(k).user.Name],
              failed   |-> FALSE,
              panic    |-> \E k \in DOMAIN users :
                              ~got(k).failed /\ got(k).user = NilUser,
              getUsers |-> 1]

\* groupMessages, lines 325-331: the UserLookup of the archive.
GroupMessages ==
    /\ rpc = "group"
    /\ \E usersOk \in BOOLEAN :
        rpc' = IF newUserLookup(usersOk).failed THEN "error" ELSE "text"
    /\ getUsersCalls' = getUsersCalls + 1
    /\ UNCHANGED <<rtext, rreactions, rk, rhtml, rsummaries>>
    /\ UNCHANGED <<archiveVars, refVars, sendVars, transportVars, fileVars,
                   signedInVars, lookupVars>>

\* Message.TextHtml: textToHtml at the next control token of the text.
RenderToken ==
    /\ rpc = "text"
    /\ rk <= Len(rtext)
    /\ \E usersOk, authOk \in BOOLEAN :
        LET r == RenderControl(rtext[rk], usersOk, authOk)
        IN  /\ rhtml' = Append(rhtml, r)
            /\ getUsersCalls' = getUsersCalls + r.getUsers
            /\ rpc' = IF r.kind = "panic" THEN "panic" ELSE rpc
    /\ rk' = rk + 1
    /\ UNCHANGED <<rtext, rreactions, rsummaries>>
    /\ UNCHANGED <<archiveVars, refVars, sendVars, transportVars, fileVars,
                   signedInVars, lookupVars>>

\* The text is rendered; the reactions follow.
TextDone ==
    /\ rpc = "text"
    /\ rk > Len(rtext)
    /\ rpc' = "reactions"
    /\ rk' = 1
    /\ UNCHANGED <<rtext, rreactions, rhtml, rsummaries, getUsersCalls>>
    /\ UNCHANGED <<archiveVars, refVars, sendVars, transportVars, fileVars,
                   signedInVars, lookupVars>>

\* The Summary of the next reaction.
ReactionSummary ==
    /\ rpc = "reactions"
    /\ rk <= Len(rreactions)
    /\ \E usersOk \in BOOLEAN :
        LET r == Summary(rreactions[rk], usersOk)
        IN  /\ rsummaries' = Append(rsummaries, r)
            /\ getUsersCalls' = getUsersCalls + r.getUsers
            /\ rpc' = IF r.panic THEN "panic" ELSE rpc
    /\ rk' = rk + 1
    /\ UNCHANGED <<rtext, rreactions, rhtml>>
    /\ UNCHANGED <<archiveVars, refVars, sendVars, transportVars, fileVars,
                   signedInVars, lookupVars>>

\* The archive is rendered.
RenderDone ==
    /\ rpc = "reactions"
    /\ rk > Len(rreactions)
    /\ rpc' = "done"
    /\ UNCHANGED <<rtext, rreactions, rk, rhtml, rsummaries, getUsersCalls>>
    /\ UNCHANGED <<archiveVars, refVars, sendVars, transportVars, fileVars,
                   signedInVars, lookupVars>>

---------------------------------------------------------------------------
(* Inputs.                                                                 *)

\* The author fields and the Hidden flag of a message.
Message(ts, shape) ==
    [Timestamp |-> ts, User |-> shape.User, BotID |-> shape.BotID,
     Username |-> shape.Username, Hidden |-> shape.Hidden]

ByUser    == [User |-> "U1", BotID |-> "",   Username |-> "",    Hidden |-> FALSE]
ByBot     == [User |-> "",   BotID |-> "B1", Username |-> "",    Hidden |-> FALSE]
ByName    == [User |-> "",   BotID |-> "",   Username |-> "BOB", Hidden |-> FALSE]
Anonymous == [User |-> "",   BotID |-> "",   Username |-> "",    Hidden |-> FALSE]
Deleted   == [User |-> "U1", BotID |-> "",   Username |-> "",    Hidden |-> TRUE]

\* ts moved on by a number of 1/SubPerSec seconds.
AddTicks(ts, n) ==
    [sec  |-> ts.sec + ((ts.frac + n) \div SubPerSec),
     frac |-> (ts.frac + n) % SubPerSec]

\* Timezones: Pacific time without a transition, with the spring and the
\* autumn transition at 02:00 local of day 11; Cairo, whose clocks go from
\* 00:00 to 01:00 in spring (day 11 has no midnight) and from 24:00 back to
\* 23:00 in autumn; Santiago, whose clocks go from 24:00 to 01:00.
Zones ==
    {[name |-> "America/Los_Angeles", at |-> 0,
      before |-> -8 * Hour, after |-> -8 * Hour],
     [name |-> "America/Los_Angeles", at |-> 11 * SecondsPerDay + 10 * Hour,
      before |-> -8 * Hour, after |-> -7 * Hour],
     [name |-> "America/Los_Angeles", at |-> 11 * SecondsPerDay + 9 * Hour,
      before |-> -7 * Hour, after |-> -8 * Hour],
     [name |-> "Africa/Cairo", at |-> 11 * SecondsPerDay - 2 * Hour,
      before |-> 2 * Hour, after |-> 3 * Hour],
     [name |-> "Africa/Cairo", at |-> 12 * SecondsPerDay - 3 * Hour,
      before |-> 3 * Hour, after |-> 2 * Hour],
     [name |-> "America/Santiago", at |-> 11 * SecondsPerDay + 4 * Hour,
      before |-> -4 * Hour, after |-> -3 * Hour]}

Pacific == CHOOSE z \in Zones : z.at = 0

Nows ==
    {d * SecondsPerDay + c : d \in 10..13, c \in {1800, 9 * Hour, 23 * Hour + 1800}}

\* The first instants of local day `day' in loc.
DayStarts(loc, day) ==
    {u \in {day * SecondsPerDay - loc.before, day * SecondsPerDay - loc.after, loc.at} :
        LocalDay(loc, u) = day /\ LocalDay(loc, u - 1) = day - 1}

\* Timestamps at and around the two ends of the local day before t.
ProbeTimes(loc, t) ==
    {AddTicks(FormatUnix(u + d), f) :
        u \in DayStarts(loc, LocalDay(loc, t) - 1) \cup DayStarts(loc, LocalDay(loc, t)),
        d \in {-1, 0, 1800},
        f \in 0..(SubPerSec - 1)}

\* A channel of n messages, one every 1/SubPerSec second from just after
\* instant u on, each of one of the given shapes.
Channels(u, n, shapes) ==
    {{Message(AddTicks(FormatUnix(u), k), f[k]) : k \in 1..n} : f \in [1..n -> shapes]}

\* The gaps between one message of a list and the next, in 1/SubPerSec
\* seconds: a fraction of a second, 10 minutes, 10 minutes and a fraction of
\* a second, 10 minutes 1 second.
Gaps == {1, GroupGap * SubPerSec, GroupGap * SubPerSec + 1, (GroupGap + 1) * SubPerSec}

\* The timestamp of the k-th message of a list that starts at second 1000
\* and goes on by the gaps gap[2], ..., gap[k].
RECURSIVE TimestampAt(_, _)
TimestampAt(gap, k) ==
    IF k = 1 THEN FormatUnix(1000)
    ELSE AddTicks(TimestampAt(gap, k - 1), gap[k])

\* The list, oldest first, of the messages of the shapes shape[1..n].
List(shape, gap) ==
    [k \in DOMAIN shape |-> Message(TimestampAt(gap, k), shape[k])]

\* No request for an archive page under way, on the development server or
\* not.
IdleRequestOn(dev) ==
    /\ origin = NoConversation
    /\ mpimMembers = <<>>
    /\ isDev = dev
    /\ reqType = ""
    /\ reqRef = ""
    /\ linked = FALSE
    /\ hpc = "idle"
    /\ conversation = NoConversation
    /\ refLookup = EmptyCache
    /\ memberIds = <<>>
    /\ mi = 1
    /\ loaded = <<>>
    /\ apiCalls = 0
    /\ upFailed = FALSE
    /\ appError = NoAppError
    /\ mails = 0
    /\ status = 0

IdleRequest == IdleRequestOn(FALSE)

\* No scheduled send under way.
IdleSend ==
    /\ accounts = <<>>
    /\ cron = NoCron
    /\ queue = <<>>
    /\ spc = "idle"
    /\ cur = 0
    /\ convs = 0
    /\ ck = 1
    /\ sentCount = 0
    /\ sendErr = ""
    /\ sendFailed = FALSE
    /\ attempted = {}
    /\ lastSend = NoSend
    /\ taskResults = <<>>
    /\ digests = 0
    /\ opMails = 0

\* No concurrent invocations.
IdleTransport ==
    /\ defaultTransport = ""
    /\ cpc = [p \in Invocations |-> "idle"]
    /\ made = [p \in Invocations |-> 0]
    /\ callLog = {}
    /\ ctxDone = {}

\* No thumbnail token under way.
IdleFiles ==
    /\ fileUrlRefEncryptionKey = [size |-> 16, k |-> 1]
    /\ fileRef = NilRef
    /\ fpc = "idle"
    /\ encoded = NoToken
    /\ presented = <<>>
    /\ intact = FALSE
    /\ decoded = NotDecoded

\* No account lookup and no signed-in request under way.
IdleSignedIn ==
    /\ entities = <<>>
    /\ session = [ok |-> FALSE, userId |-> ""]
    /\ url = ""
    /\ apc = "idle"
    /\ returned = NoLookup
    /\ fnState = NoState
    /\ slackClients = 0

\* No UserLookup under way.
IdleLookup ==
    /\ lcache = EmptyCache
    /\ lpc = "idle"
    /\ lmsg = Anonymous
    /\ lres = <<>>
    /\ gid = ""
    /\ gres = <<>>

\* Nothing being rendered.
IdleRender ==
    /\ rtext = <<>>
    /\ rreactions = <<>>
    /\ rpc = "idle"
    /\ rk = 1
    /\ rhtml = <<>>
    /\ rsummaries = <<>>
    /\ getUsersCalls = 0

IdleRest == IdleFiles /\ IdleSignedIn /\ IdleLookup /\ IdleRender

InitBuild ==
    /\ archiveStartTime = 0
    /\ archiveEndTime = 0
    /\ params = NoParams
    /\ history = NoHistory
    /\ pages = 0
    /\ fault = ""
    /\ err = ""
    /\ usersById = EmptyCache
    /\ haveLookup = FALSE
    /\ groups = <<>>
    /\ i = 1
    /\ authorLookups = 0
    /\ upCalls = 0
    /\ resolved = <<>>
    /\ archive = NoArchive
    /\ run = 1
    /\ firstGroups = <<>>

InitRun ==
    /\ IdleRest
    /\ IdleRequest
    /\ IdleSend
    /\ IdleTransport
    /\ InitBuild

\* newConversationArchive over a channel that takes several pages.
InitPaging ==
    /\ now = 12 * SecondsPerDay + 17 * Hour
    /\ zone = Pacific
    /\ devMode = FALSE
    /\ \E n \in 0..MaxMsgs :
         upstream \in Channels(11 * SecondsPerDay + 8 * Hour, n,
                               {ByUser, Anonymous, Deleted})
    /\ messages = <<>>
    /\ pc = "start"
    /\ InitRun

\* newConversationArchive at any time, in any timezone, over a channel of at
\* most one message, at or around an end of the day before.
InitWindow ==
    /\ now \in Nows
    /\ zone \in Zones
    /\ devMode \in BOOLEAN
    /\ upstream \in {{}} \cup {{Message(ts, ByUser)} : ts \in ProbeTimes(zone, now)}
    /\ messages = <<>>
    /\ pc = "start"
    /\ InitRun

Init == InitPaging \/ InitWindow

Next == Begin \/ FetchPage \/ NewUserLookup \/ GroupStep \/ Finish

Spec == Init /\ [][Next]_vars

\* groupMessages on its own, over any short list, run twice.
InitGroup ==
    /\ now = 0
    /\ zone = Pacific
    /\ devMode = FALSE
    /\ upstream = {}
    /\ \E n \in 0..MaxGroupMsgs :
         \E shape \in [1..n -> {ByUser, ByBot, ByName, Anonymous, Deleted}],
            gap \in [2..n -> Gaps] :
                messages = List(shape, gap)
    /\ pc = "lookup"
    /\ InitRun

NextGroup == NewUserLookup \/ GroupStep \/ Finish \/ Rerun

SpecGroup == InitGroup /\ [][NextGroup]_vars

\* The author fields a message may carry: a listed user, a user only
\* GetUserInfo knows, an id no lookup knows; a bot GetBotInfo knows, one it
\* does not; a username that matches a listed user but for its case, one
\* that matches nobody.
AuthorShapes ==
    {[User |-> u, BotID |-> b, Username |-> n, Hidden |-> FALSE] :
        u \in {"", "U1", "U3", "U9"}, b \in {"", "B1", "B9"}, n \in {"", "BOB", "zed"}}

\* groupMessages over any short list of messages of any author fields, a
\* fraction of a second apart.
InitAuthors ==
    /\ now = 0
    /\ zone = Pacific
    /\ devMode = FALSE
    /\ upstream = {}
    /\ \E n \in 0..MaxAuthorMsgs :
         \E shape \in [1..n -> AuthorShapes] :
             messages = List(shape, [k \in 2..n |-> 1])
    /\ pc = "lookup"
    /\ InitRun

NextAuthors == NewUserLookup \/ GroupStep \/ Finish

SpecAuthors == InitAuthors /\ [][NextAuthors]_vars

\* The member ids a multi-party DM may have upstream: the account's own id,
\* listed users, a user only GetUserInfo knows, a user no lookup knows.
MemberLists ==
    UNION {[1..n -> {"U0", "U1", "U2", "U3", "U9"}] : n \in 0..MaxMembers}

\* A request for the archive page of a conversation: by the link of a listed
\* conversation, or with a type and a ref typed in.
InitRef ==
    /\ origin \in ListedConversations \cup {NoConversation}
    /\ mpimMembers \in MemberLists
    /\ isDev \in BOOLEAN
    /\ reqType = ""
    /\ reqRef = ""
    /\ linked = FALSE
    /\ hpc = "idle"
    /\ conversation = NoConversation
    /\ refLookup = EmptyCache
    /\ memberIds = <<>>
    /\ mi = 1
    /\ loaded = <<>>
    /\ apiCalls = 0
    /\ upFailed = FALSE
    /\ appError = NoAppError
    /\ mails = 0
    /\ status = 0
    /\ IdleSend
    /\ IdleTransport
    /\ IdleRest
    /\ now = 0
    /\ zone = Pacific
    /\ devMode = FALSE
    /\ upstream = {}
    /\ messages = <<>>
    /\ pc = "idle"
    /\ InitBuild

NextRef ==
    \/ LinkToArchive
    \/ TypedRequest
    \/ GetConversationFromRef
    \/ InitFromRef
    \/ LoadUsers
    \/ LoadUserStep
    \/ LoadUsersDone
    \/ HandleRefError

SpecRef == InitRef /\ [][NextRef]_vars

\* Account records: whether TimezoneName loads, and the digest address.
AccountRecords ==
    {[TimezoneName |-> tz, TimezoneLocation |-> NilLocation,
      DigestEmailAddress |-> a] :
        tz \in {"", "Mars/Olympus"}, a \in {"", "disabled", "digest@example.org"}}

\* The scheduled send over any few accounts.
InitSend ==
    /\ accounts \in UNION {[1..n -> AccountRecords] : n \in 0..MaxAccounts}
    /\ cron = NoCron
    /\ queue = <<>>
    /\ spc = "cron"
    /\ cur = 0
    /\ convs = 0
    /\ ck = 1
    /\ sentCount = 0
    /\ sendErr = ""
    /\ sendFailed = FALSE
    /\ attempted = {}
    /\ lastSend = NoSend
    /\ taskResults = <<>>
    /\ digests = 0
    /\ opMails = 0
    /\ \E dev \in BOOLEAN : IdleRequestOn(dev)
    /\ IdleTransport
    /\ IdleRest
    /\ now = 0
    /\ zone = Pacific
    /\ devMode = FALSE
    /\ upstream = {}
    /\ messages = <<>>
    /\ pc = "idle"
    /\ InitBuild

NextSend == ArchiveCron \/ TaskStart \/ SendNext \/ TaskEnd

SpecSend == InitSend /\ [][NextSend]_vars

\* Two invocations in any interleaving.
InitTransport ==
    /\ IdleRest
    /\ IdleTransport
    /\ IdleSend
    /\ IdleRequest
    /\ now = 0
    /\ zone = Pacific
    /\ devMode = FALSE
    /\ upstream = {}
    /\ messages = <<>>
    /\ pc = "idle"
    /\ InitBuild

NextTransport ==
    \E p \in Invocations :
        SetTransport(p) \/ UpstreamCall(p) \/ ContextTimeout(p) \/ Return(p)

SpecTransport == InitTransport /\ [][NextTransport]_vars

\* Nothing of the archive, the archive page, the scheduled send or the
\* transport under way.
IdleCore ==
    /\ IdleRequest
    /\ IdleSend
    /\ IdleTransport
    /\ now = 0
    /\ zone = Pacific
    /\ devMode = FALSE
    /\ upstream = {}
    /\ messages = <<>>
    /\ pc = "idle"
    /\ InitBuild

\* The strings of at most MaxIdLen bytes a file id or user id may be:
\* letters, digits and bytes that are no valid UTF-8.
Ids ==
    UNION {[1..n -> {Code.letter, Code.digit, Code.invalid}] : n \in 0..MaxIdLen}

\* The deployment key: two usable keys, and what the start-up leaves when
\* the configured key does not decode to a key of an AES size.
Keys == {[size |-> 16, k |-> 1], [size |-> 32, k |-> 2], [size |-> 5, k |-> 3]}

\* A thumbnail URL made for any file of any user, then requested.
InitFiles ==
    /\ fileUrlRefEncryptionKey \in Keys
    /\ fileRef \in [FileId : Ids, SlackUserId : Ids]
    /\ fpc = "render"
    /\ encoded = NoToken
    /\ presented = <<>>
    /\ intact = FALSE
    /\ decoded = NotDecoded
    /\ IdleSignedIn
    /\ IdleLookup
    /\ IdleRender
    /\ IdleCore

NextFiles == EncodeRef \/ PresentToken \/ PresentCorrupted \/ Decode

SpecFiles == InitFiles /\ [][NextFiles]_vars

\* The Account entities the datastore may hold: one at most for a user id,
\* with no timezone name, with a name of the time zone database, or with a
\* name it does not have.
Entities ==
    LET E == [SlackUserId      : {"U0", "U5"},
              TimezoneName     : {"", "Africa/Cairo", "Mars/Olympus"},
              TimezoneLocation : {NilLocation}]
    IN  {s \in UNION {[1..n -> E] : n \in 0..MaxAccounts} :
            \A j, k \in DOMAIN s : j # k => s[j].SlackUserId # s[k].SlackUserId}

\* What session.Values[sessionConfig.UserIdKey].(string) may give.
Sessions ==
    {[ok |-> FALSE, userId |-> ""]}
        \cup {[ok |-> TRUE, userId |-> u] : u \in {"", "U0", "U5", "U7"}}

\* One account lookup, or one request to a handler for signed-in users.
InitSignedIn ==
    /\ entities \in Entities
    /\ session \in Sessions
    /\ url \in {"/archive/send", "/archive/conversation/dm/D1"}
    /\ apc = "request"
    /\ returned = NoLookup
    /\ fnState = NoState
    /\ slackClients = 0
    /\ IdleFiles
    /\ IdleLookup
    /\ IdleRender
    /\ \E dev \in BOOLEAN : IdleRequestOn(dev)
    /\ IdleSend
    /\ IdleTransport
    /\ now = 0
    /\ zone = Pacific
    /\ devMode = FALSE
    /\ upstream = {}
    /\ messages = <<>>
    /\ pc = "idle"
    /\ InitBuild

NextSignedIn == LookUpAccount \/ ListAccounts \/ ServeHTTP

SpecSignedIn == InitSignedIn /\ [][NextSignedIn]_vars

\* One UserLookup asked for one id and for the author of messages of one
\* combination of author fields, each a few times.
InitLookup ==
    /\ lcache = EmptyCache
    /\ lpc = "new"
    /\ lmsg \in AuthorShapes
    /\ lres = <<>>
    /\ gid \in {"U1", "U3", "U9"}
    /\ gres = <<>>
    /\ IdleFiles
    /\ IdleSignedIn
    /\ IdleRender
    /\ IdleCore

NextLookup == NewLookup \/ CallGetUser \/ ResolveMessage

SpecLookup == InitLookup /\ [][NextLookup]_vars

\* The texts between angle brackets the model renders: mentions of a listed
\* user, of a user only GetUserInfo knows and of an unknown user, with and
\* without pipe text; channels; commands; and other tokens.
Controls ==
    {<<"@", "U", "1">>, <<"@", "U", "1", "|", "r", "o", "b">>,
     <<"@", "U", "3">>,
     <<"@", "U", "9">>, <<"@", "U", "9", "|", "z", "e", "d">>,
     <<"#", "C", "1">>, <<"#", "C", "1", "|", "g">>, <<"#", "C", "9">>,
     <<"!", "h", "e", "r", "e">>, <<"!", "h", "e", "r", "e", "|", "h">>,
     <<"h", ":", "x">>, <<"h", ":", "x", "|", "x">>, <<"a", "|", "b", "|", "c">>,
     <<>>}

\* The users of a reaction.
Reactors == {<<"U1">>, <<"U2", "U9">>, <<"U3">>}

\* An archive whose messages hold a few control tokens and reactions.
InitRender ==
    /\ rtext \in UNION {[1..n -> Controls] : n \in 0..MaxTokens}
    /\ rreactions \in UNION {[1..n -> Reactors] : n \in 0..MaxReactions}
    /\ rpc = "group"
    /\ rk = 1
    /\ rhtml = <<>>
    /\ rsummaries = <<>>
    /\ getUsersCalls = 0
    /\ IdleFiles
    /\ IdleSignedIn
    /\ IdleLookup
    /\ IdleCore

NextRender ==
    GroupMessages \/ RenderToken \/ TextDone \/ ReactionSummary \/ RenderDone

SpecRender == InitRender /\ [][NextRender]_vars

---------------------------------------------------------------------------
(* Properties of the history pagination.                                   *)

\* The first request of the run: the request as it stands with the Latest
\* the window gave it.
FirstRequest == [params EXCEPT !.Latest = FormatUnix(archiveEndTime)]

\* The loop of lines 362-374 has ended by its break.
LoopEnded == pc \in {"lookup", "group", "done"} \/ (pc = "error" /\ err = "users")

\* C1: when the upstream keeps its contract (pages newest first, of at most
\* Limit messages strictly between Oldest and Latest, HasMore iff older
\* messages remain), the list accumulated when the loop ends is the messages
\* of the window, oldest first, each exactly once.
C1_PaginationComplete ==
    (LoopEnded /\ fault = "")
        => messages = OldestFirst(Selected(FirstRequest, upstream))

\* A run of three pages or more over a full channel that kept the contract.
C1_ThreePages ==
    pc = "done" /\ fault = "" /\ pages >= 3 /\ Len(messages) = MaxMsgs

\* C2: after a page of zero messages the loop has ended normally and the
\* run goes on to grouping: it neither asks again nor crashes.
C2_EmptyPageEndsLoop ==
    (pages > 0 /\ ~history.failed /\ history.Messages = <<>>) => LoopEnded

\* C3: when a page fetch fails, newConversationArchive returns the error and
\* no archive, and groupMessages is never called: no UserLookup, no group,
\* no author resolved.
C3_FetchErrorAborts ==
    err = "history"
        => /\ pc = "error"
           /\ archive = NoArchive
           /\ ~haveLookup
           /\ groups = <<>>
           /\ authorLookups = 0

\* A fetch that fails after earlier pages were accumulated.
C3_LaterPageFails == err = "history" /\ pages >= 2 /\ Len(messages) > 0

---------------------------------------------------------------------------
(* Properties of the archive window.                                       *)

\* C4: not in devMode, StartTime reads 00:00:00 of the day before now's
\* local date and EndTime 23:59:59 of that same day, in the account's
\* timezone.
C4_WindowIsYesterday ==
    (pc # "start" /\ ~devMode)
        => /\ LocalDay(zone, archiveStartTime) = LocalDay(zone, now) - 1
           /\ LocalClock(zone, archiveStartTime) = 0
           /\ LocalDay(zone, archiveEndTime) = LocalDay(zone, now) - 1
           /\ LocalClock(zone, archiveEndTime) = SecondsPerDay - 1

\* The messages the run has fetched.
Fetched == {messages[k] : k \in 1..Len(messages)}

\* C5: with the upstream keeping its contract, the messages fetched are
\* exactly those whose timestamp falls on the local day before now's: at or
\* after 00:00:00 of yesterday and before 00:00:00 of today.
C5_CoversYesterday ==
    (LoopEnded /\ fault = "" /\ ~devMode)
        => \A m \in upstream :
              m \in Fetched <=>
                 LocalDay(zone, m.Timestamp.sec) = LocalDay(zone, now) - 1

---------------------------------------------------------------------------
(* Properties of groupMessages.                                            *)

\* The positions a group holds.
Members(g) == {groups[g].Messages[k] : k \in 1..Len(groups[g].Messages)}

\* The positions the loop has put in a group so far.
Grouped == UNION {Members(g) : g \in 1..Len(groups)}

\* A timestamp string as a number of 1/SubPerSec seconds.
Ticks(ts) == ts.sec * SubPerSec + ts.frac

\* Whether a position opens a group.
StartsGroup(q) == \E g \in 1..Len(groups) : groups[g].Messages[1] = q

\* Whether q is grouped right after p and resolved to the same author.
NextOfSameAuthor(p, q) ==
    /\ p \in Grouped /\ q \in Grouped
    /\ p < q
    /\ \A k \in Grouped : ~(p < k /\ k < q)
    /\ resolved[p] = resolved[q]

\* The gap between the timestamps of two positions, in 1/SubPerSec seconds.
GapTicks(p, q) == Ticks(messages[q].Timestamp) - Ticks(messages[p].Timestamp)

\* C6 as first stated: a message by the same author as the message grouped
\* just before it starts a new group if and only if the gap between the two
\* timestamps exceeds 10 minutes, fractional parts included.
C6_GapOverTenMinutesSplits ==
    \A p \in 1..Len(messages), q \in 1..Len(messages) :
        NextOfSameAuthor(p, q)
            => (StartsGroup(q) <=> GapTicks(p, q) > GroupGap * SubPerSec)

\* C6: such a message starts a new group if and only if the gap between the
\* two timestamps, each cut to whole seconds, exceeds 10 minutes; a gap of
\* exactly 10 minutes 1 second starts a new group and a gap of exactly 10
\* minutes does not, whatever the fractional parts.
C6_WholeSecondGapSplits ==
    \A p \in 1..Len(messages), q \in 1..Len(messages) :
        NextOfSameAuthor(p, q)
            => /\ StartsGroup(q) <=>
                     messages[q].Timestamp.sec - messages[p].Timestamp.sec > GroupGap
               /\ GapTicks(p, q) = (GroupGap + 1) * SubPerSec => StartsGroup(q)
               /\ GapTicks(p, q) = GroupGap * SubPerSec => ~StartsGroup(q)

\* Two messages of one author more than 10 minutes apart, by a fraction of
\* a second, in one group; and two exactly 10 minutes 1 second apart, split.
C6_FractionOverTenMinutes ==
    /\ pc = "done"
    /\ \E p \in 1..Len(messages), q \in 1..Len(messages) :
          /\ NextOfSameAuthor(p, q)
          /\ GapTicks(p, q) = GroupGap * SubPerSec + 1
          /\ ~StartsGroup(q)
    /\ \E p \in 1..Len(messages), q \in 1..Len(messages) :
          /\ NextOfSameAuthor(p, q)
          /\ GapTicks(p, q) = (GroupGap + 1) * SubPerSec
          /\ StartsGroup(q)

\* The positions of the messages that are not hidden, in order.
VisiblePositions ==
    SelectSeq([p \in 1..Len(messages) |-> p], LAMBDA p : ~messages[p].Hidden)

\* groupMessages' loop over a whole list from a new UserLookup, the map
\* iteration of the k-th message meeting first[k] first.
RECURSIVE GroupFrom(_, _, _, _)
GroupFrom(st, list, pos, first) ==
    IF pos > Len(list) THEN st
    ELSE GroupFrom(ProcessMessage(st, list, pos, first[pos]), list, pos + 1, first)

\* Groups with the messages themselves in place of their positions.
WithMessages(gs, list) ==
    [g \in 1..Len(gs) |->
        [Author   |-> gs[g].Author,
         Messages |-> [k \in 1..Len(gs[g].Messages) |-> list[gs[g].Messages[k]]]]]

\* C7: no hidden message is in any group; the groups returned are those
\* returned for the list with the hidden messages removed (the same users
\* resolved for the messages that remain); and the authors looked up are
\* those of the messages that are not hidden.
C7_HiddenInvisible ==
    pc = "done"
        => LET visible == [k \in 1..Len(VisiblePositions) |-> messages[VisiblePositions[k]]]
               first   == [k \in 1..Len(VisiblePositions) |-> resolved[VisiblePositions[k]]]
               alone   == GroupFrom([groups |-> <<>>, cache |-> BulkCache, lookups |-> 0,
                                     calls |-> 0, author |-> ""], visible, 1, first)
           IN  /\ \A p \in Grouped : ~messages[p].Hidden
               /\ WithMessages(groups, messages) = WithMessages(alone.groups, visible)
               /\ authorLookups = Len(VisiblePositions)

\* A hidden message between two messages of one group.
C7_HiddenInsideGroup ==
    /\ pc = "done"
    /\ \E g \in 1..Len(groups) : \E p \in 1..Len(messages) :
          messages[p].Hidden /\ p - 1 \in Members(g) /\ p + 1 \in Members(g)

\* Whether some field of the message names an author.
Identifiable(m) == m.User # "" \/ m.BotID # "" \/ m.Username # ""

\* A group is well formed: it holds a message, every message of it resolved
\* to an author with the group's Author ID, and every message after the
\* first is at most maxGap 1/SubPerSec seconds later than the one before
\* it, the timestamps taken by `at'.
WellFormed(gs, list, authors, at(_), maxGap) ==
    \A g \in 1..Len(gs) :
        /\ Len(gs[g].Messages) >= 1
        /\ \A k \in 1..Len(gs[g].Messages) :
              authors[gs[g].Messages[k]] = gs[g].Author.ID
        /\ \A k \in 2..Len(gs[g].Messages) :
              at(list[gs[g].Messages[k]].Timestamp)
                 - at(list[gs[g].Messages[k - 1]].Timestamp) <= maxGap

\* The groups of one run stay, each with the Author it was created with.
AuthorsFixed ==
    run' = run =>
        \A g \in 1..Len(groups) :
            g <= Len(groups') /\ groups'[g].Author = groups[g].Author

WholeSeconds(ts) == ts.sec

\* C8 as first stated: every group is well formed, with every message at
\* most 10 minutes later than the one added before it, and the Author of a
\* group never changes.
C8_GroupsWellFormed ==
    [][/\ WellFormed(groups', messages', resolved', Ticks, GroupGap * SubPerSec)
       /\ AuthorsFixed]_vars

\* C8: every group is well formed, with every message at most 10 minutes
\* later than the one added before it once both timestamps are cut to whole
\* seconds, and the Author of a group never changes.
C8_GroupsWellFormedInSeconds ==
    [][/\ WellFormed(groups', messages', resolved', WholeSeconds, GroupGap)
       /\ AuthorsFixed]_vars

\* A group of three messages that span more than 10 minutes.
C8_SlidingWindow ==
    /\ pc = "done"
    /\ Len(groups) = 1
    /\ Len(groups[1].Messages) = 3
    /\ messages[groups[1].Messages[3]].Timestamp.sec
          - messages[groups[1].Messages[1]].Timestamp.sec > GroupGap

\* C9 as first stated: every input position between two positions of a
\* group belongs to that group.
C9_ContiguousInInput ==
    \A g \in 1..Len(groups) : \A p \in Members(g), q \in Members(g) :
        \A k \in 1..Len(messages) : (p < k /\ k < q) => k \in Members(g)

\* C9: every input position between two positions of a group whose message
\* is not hidden and names an author belongs to that group.
C9_ContiguousAmongGrouped ==
    \A g \in 1..Len(groups) : \A p \in Members(g), q \in Members(g) :
        \A k \in 1..Len(messages) :
            (p < k /\ k < q /\ ~messages[k].Hidden /\ Identifiable(messages[k]))
                => k \in Members(g)

\* A group of three messages in a row of the input.
C9_ThreeInARow ==
    /\ pc = "done"
    /\ \E g \in 1..Len(groups) : \E p \in 1..Len(messages) :
          {p, p + 1, p + 2} \subseteq Members(g)

\* C10: the second run of groupMessages over the same list returns the
\* groups of the first: as many, with the same messages and the same Author.
C10_Repeatable == (run = 2 /\ pc = "done") => groups = firstGroups

---------------------------------------------------------------------------
(* Properties of the author resolution.                                    *)

\* The ids of the cached users whose name equals `name' ignoring case.
NameMatches(cache, name) ==
    {cache[id].ID : id \in {k \in DOMAIN cache : EqualFold(name, cache[k].Name)}}

\* The author ids the fixed order of steps allows for a message, from the
\* cache as it stands before the message.
AuthorByOrder(cache, m) ==
    IF m.User # "" /\ ~GetUser(cache, m.User).failed
    THEN {GetUser(cache, m.User).user.ID}
    ELSE IF m.BotID # "" /\ ~GetUser(cache, m.BotID).failed
    THEN {GetUser(cache, m.BotID).user.ID}
    ELSE IF m.Username # "" /\ NameMatches(cache, m.Username) # {}
    THEN NameMatches(cache, m.Username)
    ELSE IF m.Username # "" THEN {"synthetic-" \o m.Username}
    ELSE IF m.User # "" THEN {"synthetic-" \o m.User}
    ELSE IF m.BotID # "" THEN {"synthetic-" \o m.BotID}
    ELSE {""}

\* C11: the author GetUserForMessage returns for a message is the result of
\* the first step that succeeds, in the order user id, bot id, cached user
\* of that name, synthetic user of the username, synthetic user of the user
\* id or else of the bot id; a name match is never replaced by a synthetic
\* identity.
C11_ResolutionOrder ==
    [][(pc = "group" /\ i' = i + 1 /\ ~messages[i].Hidden)
          => resolved'[i] \in AuthorByOrder(usersById, messages[i])]_vars

\* Both lookups of a message failed and its username matched a cached user.
C11_NameMatchAfterFailures ==
    /\ pc = "done"
    /\ \E k \in 1..Len(messages) :
          /\ messages[k].User = "U9"
          /\ messages[k].BotID = "B9"
          /\ messages[k].Username = "BOB"
          /\ resolved[k] = "U1"
    /\ \E k \in 1..Len(messages) :
          /\ messages[k].User = "U9"
          /\ messages[k].BotID = "B1"
          /\ resolved[k] = "B1"

\* The positions of the messages that name an author, in order.
IdentifiablePositions ==
    SelectSeq([p \in 1..Len(messages) |-> p], LAMBDA p : Identifiable(messages[p]))

\* C12: a message gets no author only when its User, BotID and Username
\* are all empty, whatever lookups fail; groupMessages then leaves out just
\* that message and returns, without error, the groups of the other
\* messages.
C12_OnlyAnonymousUnresolved ==
    /\ \A k \in 1..Len(resolved) :
          ~messages[k].Hidden => (resolved[k] = "" <=> ~Identifiable(messages[k]))
    /\ pc = "done"
          => LET others == [k \in 1..Len(IdentifiablePositions) |->
                               messages[IdentifiablePositions[k]]]
                 first  == [k \in 1..Len(IdentifiablePositions) |->
                               resolved[IdentifiablePositions[k]]]
                 alone  == GroupFrom([groups |-> <<>>, cache |-> BulkCache,
                                      lookups |-> 0, calls |-> 0, author |-> ""],
                                     others, 1, first)
             IN  /\ err = ""
                 /\ WithMessages(groups, messages) = WithMessages(alone.groups, others)

\* A message without any author field left out, next to a message whose
\* lookups all failed and that got the synthetic user of its id.
C12_AnonymousBesideSynthetic ==
    /\ pc = "done"
    /\ Len(groups) = 1
    /\ \E k \in 1..Len(messages) : ~Identifiable(messages[k]) /\ resolved[k] = ""
    /\ \E k \in 1..Len(messages) :
          /\ messages[k].User = "U9"
          /\ messages[k].BotID = "B9"
          /\ messages[k].Username = ""
          /\ resolved[k] = "synthetic-U9"

---------------------------------------------------------------------------
(* Properties of conversation references.                                  *)

\* C13: a request made from the ToRef of a listed conversation, when no
\* upstream call fails, gets from getConversationFromRef a conversation of
\* the same type with the same Id() whose ToRef is the same pair again; and
\* ToRef has made no upstream call.
C13_RefRoundTrip ==
    linked =>
        /\ hpc = "request" => apiCalls = 0
        /\ hpc = "resolved" =>
              /\ conversation.variant = origin.variant
              /\ Id(conversation) = Id(origin)
              /\ ToRef(conversation) = <<reqType, reqRef>>
        /\ hpc \in {"failed", "responded"} => upFailed

\* The link of the multi-party DM resolved, its users loaded.
C13_MultiPartyResolved ==
    /\ linked
    /\ hpc = "resolved"
    /\ origin.variant = "MultiPartyDirectMessageConversation"
    /\ conversation.usersSet
    /\ Len(conversation.users) = 2

\* C14: a request with a type string that is none of the four known ones
\* fails before any upstream call and ends as bad input: no operator mail,
\* no upstream fetch error.
C14_UnknownTypeIsBadInput ==
    (hpc = "responded" /\ VariantOfType(reqType) = "")
        => /\ apiCalls = 0
           /\ mails = 0
           /\ appError.Type # AppErrorTypeSlackFetch

\* The member ids of the multi-party DM without the account's own.
OtherMembers == SelectSeq(mpimMembers, LAMBDA id : id # AuthUserID)

\* Whether the user directory knows an id.
Resolvable(id) == id \in DOMAIN BulkCache \cup DOMAIN UserInfo

\* The user of an id the directory knows.
UserOf(id) == IF id \in DOMAIN BulkCache THEN BulkCache[id] ELSE UserInfo[id]

\* C15: after a successful load the users of a multi-party DM are the
\* upstream members in upstream order, without any occurrence of the
\* account's own id, each as GetUser resolves it; when a member does not
\* resolve the load fails, and after a failed load the users are unset.
C15_MembersWithoutSelf ==
    conversation.variant = "MultiPartyDirectMessageConversation" =>
        /\ hpc = "resolved" =>
              /\ conversation.usersSet
              /\ conversation.users =
                    [k \in 1..Len(OtherMembers) |-> UserOf(OtherMembers[k])]
        /\ (\E k \in 1..Len(OtherMembers) : ~Resolvable(OtherMembers[k]))
              => hpc # "resolved"
        /\ hpc \in {"failed", "responded"} => ~conversation.usersSet

\* A load over members that name the account twice.
C15_SelfListedTwice ==
    /\ hpc = "resolved"
    /\ conversation.variant = "MultiPartyDirectMessageConversation"
    /\ Len(mpimMembers) = 3
    /\ Len(conversation.users) = 1
    /\ conversation.users[1].ID = "U3"

---------------------------------------------------------------------------
(* Properties of the archive's emptiness and of the scheduled send.        *)

\* C16: Empty() is true iff no group holds a message; for the archive
\* newConversationArchive returns that is iff every fetched message is
\* hidden or names no author, whatever MessageCount says.
C16_EmptyIffNothingGrouped ==
    pc = "done" =>
        /\ Empty(archive) <=> Grouped = {}
        /\ Empty(archive) <=>
              \A k \in 1..Len(messages) :
                  messages[k].Hidden \/ ~Identifiable(messages[k])
        /\ archive.MessageCount = Len(messages)

\* An archive that is empty and counts messages, hidden and anonymous.
C16_EmptyWithMessages ==
    /\ pc = "done"
    /\ Empty(archive)
    /\ archive.MessageCount >= 2
    /\ \E k \in 1..Len(messages) : messages[k].Hidden
    /\ \E k \in 1..Len(messages) : ~messages[k].Hidden

\* C17: sendConversationArchive calls the mail transport only with an
\* address that is not "disabled" and an archive that is not Empty(); for a
\* "disabled" address it returns (false, nil) without fetching history or
\* mailing, for an empty archive (false, nil) without mailing; and it
\* returns sent = true only after calling the mail transport.
C17_MailOnlyWhenEnabledAndNotEmpty ==
    lastSend.called =>
        /\ lastSend.mailCalled =>
              /\ lastSend.address # "disabled"
              /\ lastSend.built
              /\ ~Empty(lastSend.archive)
        /\ lastSend.address = "disabled" =>
              /\ ~lastSend.sent /\ lastSend.err = ""
              /\ ~lastSend.mailCalled /\ ~lastSend.fetched
        /\ (lastSend.built /\ Empty(lastSend.archive)) =>
              /\ ~lastSend.sent /\ lastSend.err = ""
              /\ ~lastSend.mailCalled
        /\ lastSend.sent => lastSend.mailCalled

\* An archive that is empty though it counts messages, not mailed, after an
\* earlier archive was mailed.
C17_EmptyArchiveSuppressed ==
    /\ lastSend.called
    /\ lastSend.built
    /\ Empty(lastSend.archive)
    /\ lastSend.archive.MessageCount > 0
    /\ ~lastSend.sent
    /\ digests > 0

\* C18: the failure of one unit leaves its siblings alone: every
\* conversation of an account whose task ran is attempted, and when the
\* account query works a task is enqueued for every account that can be
\* initialised.
C18_SiblingsUnaffected ==
    /\ \A t \in 1..Len(taskResults) :
          \A k \in 1..taskResults[t].conversations :
              <<taskResults[t].account, k>> \in attempted
    /\ (cron.ran /\ cron.queryOk) =>
          \A k \in 1..Len(accounts) :
              ~initAccount(accounts[k]).failed => k \in cron.enqueued

\* C19: when a sendConversationArchive of a task failed, the task returns
\* an error to the queue and, outside the dev server, has mailed the
\* operator.
C19_SendFailurePropagates ==
    \A t \in 1..Len(taskResults) :
        taskResults[t].sendFailed =>
            /\ taskResults[t].err # ""
            /\ ~isDev => taskResults[t].mailed

---------------------------------------------------------------------------
(* Properties of concurrent invocations.                                   *)

\* C20: every upstream call of an invocation goes through the transport
\* and context made for that invocation, and so fails on an ended context
\* only when its own context has ended.
C20_OwnTransport ==
    \A e \in callLog :
        /\ e.via = e.by
        /\ e.failed => e.by \in ctxDone


---------------------------------------------------------------------------
(* Properties of thumbnail URL tokens.                                     *)

\* The strings encoding/json carries unchanged.
ValidUtf8(str) == \A k \in DOMAIN str : str[k] # Code.invalid

\* C21, as stated: whatever the two strings of the FileUrlRef and whatever
\* nonce Encode drew, decoding the token Encode returned, under the same
\* key, succeeds and returns a ref equal to the one encoded.
C21_RoundTrip ==
    (fpc = "done" /\ intact) =>
        (decoded.outcome = "ref" /\ decoded.f = fileRef)

\* C21, amended: the round trip returns the ref encoded whenever both of its
\* strings are valid UTF-8; for any strings it succeeds and returns the ref
\* with every invalid byte replaced by U+FFFD.
C21_ValidUtf8RoundTrip ==
    (fpc = "done" /\ intact) =>
        /\ decoded.outcome = "ref"
        /\ decoded.f = [FileId      |-> Coerce(fileRef.FileId),
                        SlackUserId |-> Coerce(fileRef.SlackUserId)]
        /\ (ValidUtf8(fileRef.FileId) /\ ValidUtf8(fileRef.SlackUserId))
               => decoded.f = fileRef

\* A ref of two non-empty valid strings, longer than a cipher block once
\* marshalled, has made the round trip.
C21_TwoIdsRoundTripped ==
    /\ fpc = "done"
    /\ intact
    /\ Len(fileRef.FileId) = MaxIdLen
    /\ fileRef.SlackUserId # <<>>
    /\ fileRef.FileId # fileRef.SlackUserId
    /\ ValidUtf8(fileRef.FileId)
    /\ ValidUtf8(fileRef.SlackUserId)
    /\ decoded.outcome = "ref"
    /\ decoded.f = fileRef

\* C22: DecodeFileUrlRef does not panic, and for every token that is not the
\* unmodified output of Encode under the deployment key it returns a nil ref
\* and an error.
C22_CorruptedTokenRejected ==
    /\ decoded.outcome # "panic"
    /\ (fpc = "done" /\ ~intact) => decoded.outcome = "error"


---------------------------------------------------------------------------
(* Properties of account lookups and of signed-in requests.                *)

\* The entity of the datastore an account returned was read from.
EntityOf(a) ==
    entities[CHOOSE k \in DOMAIN entities : entities[k].SlackUserId = a.SlackUserId]

\* The entities a lookup is about: the one of the key, or all of them.
LookedUp ==
    {k \in DOMAIN entities :
        returned.op = "getAllAccounts" \/ entities[k].SlackUserId = returned.key}

\* C23: every account getAccount or getAllAccounts returns has the location
\* of its timezone name, the name being America/Los_Angeles where the entity
\* has none; and when the non-empty name of an entity looked up cannot be
\* loaded, the lookup fails and returns no account.
C23_LocationLoadedOrNoAccount ==
    returned.op # "" =>
        /\ \A k \in DOMAIN returned.accounts :
              LET a    == returned.accounts[k]
                  name == IF EntityOf(a).TimezoneName = "" THEN "America/Los_Angeles"
                          ELSE EntityOf(a).TimezoneName
              IN  /\ a.TimezoneName = name
                  /\ a.TimezoneLocation = name
                  /\ a.TimezoneLocation \in Locations
        /\ (\E k \in LookedUp : entities[k].TimezoneName \notin Locations \cup {""})
              => (returned.failed /\ returned.accounts = <<>>)
        /\ returned.failed => returned.accounts = <<>>

\* getAllAccounts has returned two accounts, one of an entity without a
\* timezone name and one of an entity with one.
C23_FallbackBesideNamed ==
    /\ returned.op = "getAllAccounts"
    /\ Len(returned.accounts) = 2
    /\ \E k \in DOMAIN entities : entities[k].TimezoneName = ""
    /\ \E k \in DOMAIN entities : entities[k].TimezoneName = "Africa/Cairo"

\* C30: the wrapped function is called only when the session holds a user
\* id and getAccount returned the account of that id without error; in every
\* other request the response is the redirect to the route index with the
\* URL of the request as continue_url, no Slack client is made and no
\* upstream call.
C30_OnlySignedIn ==
    (apc = "done" /\ returned.op \notin {"getAccount", "getAllAccounts"}) =>
        IF fnState.called
        THEN /\ session.ok
             /\ returned.op = "ServeHTTP"
             /\ ~returned.failed
             /\ returned.accounts = <<fnState.Account>>
             /\ fnState.Account.SlackUserId = session.userId
             /\ \E k \in DOMAIN entities :
                   entities[k].SlackUserId = session.userId
             /\ slackClients = 1
        ELSE /\ appError = NotSignedIn(url)
             /\ status = 302
             /\ slackClients = 0
             /\ apiCalls = 0
             /\ mails = 0

\* A request whose session holds the id of a user whose account cannot be
\* initialised has been redirected.
C30_AccountErrorRedirected ==
    /\ apc = "done"
    /\ returned.op = "ServeHTTP"
    /\ session.ok
    /\ \E k \in DOMAIN entities :
          /\ entities[k].SlackUserId = session.userId
          /\ entities[k].TimezoneName = "Mars/Olympus"
    /\ ~fnState.called
    /\ appError = NotSignedIn(url)


---------------------------------------------------------------------------
(* Properties of the history requests and of the grouped messages.         *)

\* C28: from one history request of a newConversationArchive call to the
\* next only Latest changes; it becomes the timestamp of the last, oldest
\* message of the page just fetched, which is below the Latest before, and
\* ChannelID, Oldest, Limit and Inclusive stay those of the first request.
C28_OnlyLatestMoves ==
    [][(pc = "fetch" /\ pc' = "fetch") =>
          /\ params' = [params EXCEPT
                          !.Latest = history'.Messages[Len(history'.Messages)].Timestamp]
          /\ \A k \in 1..Len(history'.Messages) :
                ~TsLess(history'.Messages[k].Timestamp, params'.Latest)
          /\ TsLess(params'.Latest, params.Latest)
          /\ [params' EXCEPT !.Latest = FormatUnix(archiveEndTime)]
                = [ChannelID |-> "C1",
                   Latest    |-> FormatUnix(archiveEndTime),
                   Oldest    |-> FormatUnix(archiveStartTime),
                   Limit     |-> Limit,
                   Inclusive |-> FALSE]]_vars

\* A third request is about to be made, after two pages of more than one
\* message.
C28_ThirdRequest ==
    /\ pc = "fetch"
    /\ pages = 2
    /\ Len(messages) = 2 * Limit
    /\ params.Latest = messages[1].Timestamp

\* The positions the groups hold, in the order of the groups.
RECURSIVE Flatten(_)
Flatten(gs) ==
    IF gs = <<>> THEN <<>> ELSE Head(gs).Messages \o Flatten(Tail(gs))

\* The positions below n of the messages that are not hidden and have an
\* author.
Kept(n) ==
    SelectSeq([p \in 1..(n - 1) |-> p],
              LAMBDA p : ~messages[p].Hidden /\ Identifiable(messages[p]))

\* C29: the messages of the groups, in the order of the groups, are the
\* input messages that are not hidden and have an author, in the order of
\* the input; so the sizes of the groups add up to no more than the
\* archive's MessageCount, and to less when a hidden message or one without
\* author was fetched.
C29_GroupsKeepInputOrder ==
    /\ pc = "group" => Flatten(groups) = Kept(i)
    /\ pc = "done" =>
          /\ archive.MessageGroups = groups
          /\ Flatten(groups) = Kept(Len(messages) + 1)
          /\ Len(Flatten(groups)) <= archive.MessageCount
          /\ (\E p \in 1..Len(messages) :
                  messages[p].Hidden \/ ~Identifiable(messages[p]))
                => Len(Flatten(groups)) < archive.MessageCount

\* An archive whose grouped messages had a hidden message and a message
\* without author between them.
C29_SkippedBetweenGrouped ==
    /\ pc = "done"
    /\ Len(Flatten(groups)) >= 2
    /\ \E p, q \in 2..(Len(messages) - 1) :
          /\ messages[p].Hidden
          /\ ~messages[q].Hidden /\ ~Identifiable(messages[q])
    /\ ~messages[1].Hidden /\ Identifiable(messages[1])
    /\ ~messages[Len(messages)].Hidden /\ Identifiable(messages[Len(messages)])
    /\ Len(Flatten(groups)) = archive.MessageCount - 2


---------------------------------------------------------------------------
(* Properties of one UserLookup over several calls.                        *)

LookupSucceeds(id) == id \in DOMAIN BulkCache \cup DOMAIN UserInfo \cup DOMAIN BotInfo

\* The IDs of the identities that may be synthesized for a message.
Synthetic(m) == {newSyntheticUser(n).ID : n \in {m.User, m.BotID, m.Username}}

---------------------------------------------------------------------------
(* Properties of rendering.                                                *)

\* C26: while one archive is built and rendered the bulk listing of the
\* users is asked for at most once, however many mentions and reactions
\* there are.
C26_BulkListingOnce == getUsersCalls <= 1

\* The text of a token before its last pipe, and the text after it.
ControlOf(inner) ==
    IF LastIndex(inner, "|") # 0 THEN SubSeq(inner, 1, LastIndex(inner, "|") - 1)
    ELSE inner

PipeTextOf(inner) ==
    IF LastIndex(inner, "|") # 0
    THEN Str(SubSeq(inner, LastIndex(inner, "|") + 1, Len(inner)))
    ELSE ""

\* The label of a token that no lookup names.
PlainLabel(inner) ==
    IF PipeTextOf(inner) # "" THEN PipeTextOf(inner) ELSE Str(ControlOf(inner))

=============================================================================
